---- MODULE Spec2Model ----
(***************************************************************************)
(* A model of the nexus daemon: the PTY channel engine (reader, waiter,    *)
(* kill), the channel manager, the session listener's per-client handler   *)
(* and the event pump that fans manager events out to client mailboxes.    *)
(*                                                                         *)
(* Granularity.  The listener keeps all shared state behind one            *)
(* tokio RwLock.  Every section of code that runs under one lock guard is  *)
(* one action here; two sections under two guards are two actions, so that *)
(* everything that can run between them does.  A mailbox send suspends     *)
(* only when the mailbox is full, and the sender keeps the read guard it   *)
(* sends under; suspended and mailboxFull model that.  A mailbox is full   *)
(* only in the session whose first client has stopped reading (SlowSpec).  *)
(* The event channel is full only in BusySpec, where the pump's receive    *)
(* and the manager's send are steps of their own, apart from the locked    *)
(* sections around them; everywhere else it stays under its capacity and   *)
(* a send on it never waits.                                               *)
(*                                                                         *)
(* Names are interchangeable, so clients attach in the order c1, c2 and    *)
(* channels are created in the order a, b.                                 *)
(***************************************************************************)
EXTENDS Integers, Sequences, FiniteSets, TLC

\* ---------------------------------------------------------------- bounds
\* what the environment does, all together: requests sent by clients,
\* connections closed or broken, chunks of output written by child processes
MaxSteps == 2
\* the same, for a session that only one client attaches to
MaxSoloSteps == 3
\* the same, for the channel manager looked at on its own: calls and chunks
MaxOps == 4
\* the same, for a session whose first client has stopped reading
MaxSlowSteps == 3
\* the same, for a session whose first channel has filled its replay buffer
MaxBufferSteps == 2
\* the same, for a session whose event channel is full
MaxBusySteps == 1
\* requests sent by the client of a session whose daemons are seen starting
\* up and shutting down
MaxHostSteps == 1
\* a connection looked at byte by byte: the frames its peer writes, the
\* length of a payload, the values of a payload's bytes
MaxFrames == 2
MaxPayloadLen == 2
PayloadBytes == {0, 1}
\* and the length of one longer payload, which takes the length prefix past
\* its lowest byte
LongLen == 256

Channels == {"a", "b"}
Clients == {"c1", "c2"}
\* the tasks that send to mailboxes: the event pump and the clients' handlers
Tasks == {"pump"} \cup Clients
\* the daemon processes started on one socket path; the session modelled is
\* the one of d1
Daemons == {"d1", "d2"}

\* ------------------------------------------------------ program constants
PROTOCOL_VERSION == 1
OTHER_VERSION == 999
EVENT_CAPACITY == 256
MAILBOX_CAPACITY == 256
MAX_BUFFERED_OUTPUTS == 200
MAX_MESSAGE_SIZE == 10485760
\* read_message's own limit on the length a header declares
READ_MESSAGE_LIMIT == 16777216

NoChannel == "-"
NoFile == "-"
\* the socket file left behind by a daemon that was killed
Stale == "stale"
Versions == {PROTOCOL_VERSION, OTHER_VERSION}

VARIABLES
  channels,             \* ChannelManager.channels: name -> [state, killer]
  active_channel,       \* ChannelManager.active_channel
  subscribed_channels,  \* ChannelManager.subscribed_channels
  waiterPc,             \* the waiter thread of a channel (and its child)
  produced,             \* chunks the reader thread of a channel has published
  sinkLog,              \* every event sent on the manager's event channel
  pumped,               \* how many of them the event pump has received
  pumpPc, pumpEv,       \* the event pump: its position and current event
  recipients,           \* handle_channel_event: recipients
  subscription_updates, \* handle_channel_event: subscription_updates
  output_buffers,       \* ServerState.output_buffers
  clients,              \* ServerState.clients (keys)
  client_ids,           \* Session.client_ids
  subs,                 \* each ClientConnection's subscription set
  mboxOpen,             \* the receiving end of a client's mailbox exists
  sent,                 \* every message enqueued to a client's mailbox
  pc,                   \* each handle_client task's position
  hl,                   \* each handle_client task's locals
  suspended,            \* tasks suspended in a mailbox send, read guard held
  mailboxFull,          \* a client's mailbox holds MAILBOX_CAPACITY messages
  dpc,                  \* each daemon process's position in main and run
  socket_file,          \* whose listener the file at the socket path leads to
  shutdown_rx,          \* units waiting in each daemon's shutdown channel
  signal_task,          \* each daemon's signal handler task
  wire,                 \* bytes the peer has written that have not arrived
  buffer,               \* bytes that have arrived and are not consumed
  eof,                  \* the peer has closed its end
  framed,               \* the payloads the peer has framed, in order
  declared,             \* the length of a header the peer wrote on its own
  reader,               \* the function that takes the frames off the stream
  rdPc,                 \* its position: at a header, in a body, or done
  verdict,              \* what its last call returned
  allocated,            \* the size of the body buffer of its last call
  unframed,             \* the payloads it has returned, in order
  written,              \* writes each channel's PTY writer has taken
  mgr_call,             \* the last call made on the manager alone, and its end
  nreq                  \* steps the environment may still take

vars == <<channels, active_channel, subscribed_channels, waiterPc,
          produced, sinkLog, pumped, pumpPc, pumpEv, recipients,
          subscription_updates, output_buffers, clients, client_ids, subs,
          mboxOpen, sent, pc, hl, suspended, mailboxFull, dpc, socket_file,
          shutdown_rx, signal_task, wire, buffer, eof, framed, declared,
          reader, rdPc, verdict, allocated, unframed, written, mgr_call,
          nreq>>

chanVars == <<channels, active_channel, subscribed_channels, waiterPc,
              produced>>
pumpVars == <<pumpPc, pumpEv, recipients, subscription_updates>>
\* the daemon processes and the socket path they share
hostVars == <<dpc, socket_file, shutdown_rx, signal_task>>
\* one connection's byte stream and the function that reads it
codecVars == <<wire, buffer, eof, framed, declared, reader, rdPc, verdict,
               allocated, unframed>>
\* the session of d1, its clients and the budget of their steps
sessionVars == <<chanVars, sinkLog, pumped, pumpVars, output_buffers, clients,
                 client_ids, subs, mboxOpen, sent, pc, hl, suspended,
                 mailboxFull, nreq>>
\* what no section of the session's code writes
outsideVars == <<mailboxFull, hostVars, codecVars, written, mgr_call>>

\* --------------------------------------------------------------- helpers
Range(s) == {s[i] : i \in 1..Len(s)}

\* ChannelState::is_alive
is_alive(st) == st \in {"Starting", "Running"}

\* ServerMessage values
Msg(t, ch, n, S) ==
  [t |-> t, ch |-> ch, n |-> n, subs |-> S, channels |-> {}]
NoMsg == Msg("", "", 0, {})
create_welcome_message == Msg("Welcome", "", PROTOCOL_VERSION, {})
OutputMsg(c, k) == Msg("Output", c, k, {})
EventMsg(kind, c) == Msg(kind, c, 0, {})
SubscriptionChanged(S) == Msg("SubscriptionChanged", "", 0, S)
Ack(cmd) == Msg("Ack", cmd, 0, {})
ChannelList(infos) == [Msg("ChannelList", "", 0, {}) EXCEPT !.channels = infos]
create_error_message(what) == Msg("Error", what, 0, {})

\* ChannelManagerEvent values
OutputEv(c, k) == [k |-> "Output", ch |-> c, n |-> k, st |-> ""]
StateChanged(c, st) == [k |-> "StateChanged", ch |-> c, n |-> 0, st |-> st]
NoEvent == [k |-> "", ch |-> "", n |-> 0, st |-> ""]

\* a call on the manager: the function, the channel named, how it ended
Call(f, name, res) == [f |-> f, name |-> name, res |-> res]
NoCall == Call("", "", "")

NoLocals ==
  [chans |-> <<>>, snap |-> <<>>, resp |-> NoMsg, ret |-> "", req |-> <<>>,
   cmd |-> ""]

\* mpsc::Sender::send on the manager's event channel: room is needed
EventRoom == Len(sinkLog) - pumped < EVENT_CAPACITY

\* ClientConnection::send to one client's mailbox, as the new log of that client
SendTo(log, s, m) == IF mboxOpen[s] THEN Append(log, m) ELSE log

\* A mailbox send suspends while the mailbox is open and full, and the task
\* keeps the read guard it sends under.  A section of sends is given by the
\* log it leaves when it runs to its end.
\* the clients a section enqueues to
Targets(new) == {s \in Clients : new[s] # sent[s]}
\* the clients task t has sent to in the section it is suspended in
Served(t) == IF suspended[t] = <<>> THEN {} ELSE suspended[t][1]
\* task t is suspended at a mailbox that is still open and full
Stuck(t) ==
  /\ suspended[t] # <<>>
  /\ mboxOpen[suspended[t][2]]
  /\ mailboxFull[suspended[t][2]]
\* the section of task t runs to its end
Finish(t, new) ==
  /\ \A s \in Targets(new) \ Served(t) : ~mailboxFull[s]
  /\ sent' = [s \in Clients |-> IF s \in Served(t) THEN sent[s] ELSE new[s]]
  /\ suspended' = [suspended EXCEPT ![t] = <<>>]
\* the section of task t sends to some clients and suspends at a full mailbox
Suspends(t, new) ==
  /\ ~Stuck(t)
  /\ \E f \in Targets(new) \ Served(t) :
       /\ mailboxFull[f]
       /\ \E D \in SUBSET {s \in Targets(new) \ Served(t) : ~mailboxFull[s]} :
            /\ sent' = [s \in Clients |-> IF s \in D THEN new[s] ELSE sent[s]]
            /\ suspended' = [suspended EXCEPT ![t] = <<Served(t) \cup D, f>>]
\* no task holds a read guard it is suspended under: the write lock is free
WriteLockFree == \A t \in Tasks : suspended[t] = <<>>

\* the sequences that list the members of a set once each
Orderings(S) == {q \in UNION {[1..n -> S] : n \in {Cardinality(S)}} :
                   Range(q) = S}

\* HashMap: the empty map, and insert
EmptyMap == [x \in {} |-> 0]
Put(m, key, v) == [x \in DOMAIN m \cup {key} |-> IF x = key THEN v ELSE m[x]]

\* ----------------------------------------------------------------- Init
\* ServerListener::run has bound the socket and is in its accept loop, and
\* no other daemon has been started
Listening ==
  /\ dpc = [d \in Daemons |-> IF d = "d1" THEN "accepting" ELSE "off"]
  /\ socket_file = "d1"
  /\ shutdown_rx = [d \in Daemons |-> 0]
  /\ signal_task = [d \in Daemons |-> "wait"]

\* a connection nothing has been written to
NoTraffic ==
  /\ wire = <<>>
  /\ buffer = <<>>
  /\ eof = FALSE
  /\ framed = <<>>
  /\ declared = 0
  /\ rdPc = "header"
  /\ verdict = ""
  /\ allocated = 0
  /\ unframed = <<>>

\* ServerListener::run: the state it creates, and no client yet
NewState ==
  /\ written = [c \in Channels |-> 0]
  /\ mgr_call = NoCall
  /\ channels = EmptyMap
  /\ active_channel = NoChannel
  /\ subscribed_channels = {}
  /\ waiterPc = [c \in Channels |-> "none"]
  /\ produced = [c \in Channels |-> 0]
  /\ sinkLog = <<>>
  /\ pumped = 0
  /\ pumpPc = "recv"
  /\ pumpEv = NoEvent
  /\ recipients = {}
  /\ subscription_updates = {}
  /\ output_buffers = EmptyMap
  /\ clients = {}
  /\ client_ids = <<>>
  /\ subs = [s \in Clients |-> {}]
  /\ mboxOpen = [s \in Clients |-> FALSE]
  /\ sent = [s \in Clients |-> <<>>]
  /\ pc = [s \in Clients |-> "Idle"]
  /\ hl = [s \in Clients |-> NoLocals]
  /\ suspended = [t \in Tasks |-> <<>>]
  /\ mailboxFull = [s \in Clients |-> FALSE]

\* the daemon reads its connections with read_message
Constructed ==
  NewState /\ Listening /\ NoTraffic /\ reader = "read_message"

Init == Constructed /\ nreq = MaxSteps

\* one more step of the environment is taken
EnvStep == nreq > 0 /\ nreq' = nreq - 1

\* ------------------------------------------------------- the PTY channel
\* PtyChannel::spawn_with_notifier: what a successful spawn leaves behind
SpawnedChannel == [state |-> "Running", killer |-> TRUE]

\* the child writes a chunk; the reader thread reads it from the PTY master
\* and publishes it
ReaderPublish(c) ==
  /\ EnvStep
  /\ waiterPc[c] # "none"
  /\ EventRoom
  /\ produced' = [produced EXCEPT ![c] = @ + 1]
  /\ sinkLog' = Append(sinkLog, OutputEv(c, produced[c] + 1))
  /\ UNCHANGED <<channels, active_channel, subscribed_channels, waiterPc,
                 pumped, pumpVars, output_buffers, clients, client_ids, subs,
                 mboxOpen, sent, pc, hl, suspended, outsideVars>>

\* the child process ends (by itself, or after a signal); the waiter thread's
\* child.wait() returns and it writes the state
WaiterObserve(c) ==
  /\ waiterPc[c] = "waiting"
  /\ channels' = [channels EXCEPT ![c].state = "Exited"]
  /\ waiterPc' = [waiterPc EXCEPT ![c] = "notify"]
  /\ UNCHANGED <<active_channel, subscribed_channels, produced,
                 sinkLog, pumped, pumpVars, output_buffers, clients,
                 client_ids, subs, mboxOpen, sent, pc, hl, nreq,
                 suspended, outsideVars>>

\* the waiter thread: the exit is published
WaiterNotify(c) ==
  /\ waiterPc[c] = "notify"
  /\ EventRoom
  /\ sinkLog' = Append(sinkLog, StateChanged(c, "Exited"))
  /\ waiterPc' = [waiterPc EXCEPT ![c] = "done"]
  /\ UNCHANGED <<channels, active_channel, subscribed_channels, produced,
                 pumped, pumpVars, output_buffers, clients, client_ids, subs,
                 mboxOpen, sent, pc, hl, nreq, suspended, outsideVars>>

\* ------------------------------------------------- the client connection
\* ClientConnection::subscribe: the names it adds, in the order given
NewlyAdded(S, names) == SelectSeq(names, LAMBDA c : c \notin S)
\* ClientConnection::subscribe / unsubscribe: the set afterwards
Subscribe(S, names) == S \cup Range(names)
Unsubscribe(S, names) == S \ Range(names)
\* ClientConnection::is_subscribed
is_subscribed(S, c) == c \in S

\* -------------------------------------------------------- the event pump
\* a buffer that, once full, takes nothing more
BufferPushKeepOldest(buf, k) ==
  IF Len(buf) >= MAX_BUFFERED_OUTPUTS THEN buf ELSE Append(buf, k)

\* VecDeque push_back, then pop_front while over the cap
BufferPush(buf, k) ==
  LET q == Append(buf, k)
  IN  IF Len(q) > MAX_BUFFERED_OUTPUTS
      THEN SubSeq(q, Len(q) - MAX_BUFFERED_OUTPUTS + 1, Len(q))
      ELSE q

\* a pump that ignored subscriptions: every client of the map
OutputRecipientsAll(c) == clients

\* the clients an Output event of channel c goes to
OutputRecipients(c) == {s \in clients : is_subscribed(subs[s], c)}

\* handle_channel_event, Output: the section under the write lock
PumpOutput ==
  /\ pumpPc = "recv"
  /\ WriteLockFree
  /\ pumped < Len(sinkLog)
  /\ LET ev == sinkLog[pumped + 1]
     IN  /\ ev.k = "Output"
         /\ pumpEv' = ev
         /\ output_buffers' =
              Put(output_buffers, ev.ch,
                  BufferPush(IF ev.ch \in DOMAIN output_buffers
                             THEN output_buffers[ev.ch] ELSE <<>>, ev.n))
         /\ recipients' = OutputRecipients(ev.ch)
  /\ pumped' = pumped + 1
  /\ pumpPc' = "send"
  /\ UNCHANGED <<chanVars, sinkLog, subscription_updates, clients, client_ids,
                 subs, mboxOpen, sent, pc, hl, nreq, suspended, outsideVars>>

\* handle_channel_event, Output: the sends under the read lock
OutputSends ==
  [s \in Clients |->
     IF s \in recipients /\ s \in clients
     THEN SendTo(sent[s], s, OutputMsg(pumpEv.ch, pumpEv.n))
     ELSE sent[s]]

PumpSend ==
  /\ pumpPc = "send"
  /\ Finish("pump", OutputSends)
  /\ pumpPc' = "recv"
  /\ pumpEv' = NoEvent
  /\ recipients' = {}
  /\ UNCHANGED <<chanVars, sinkLog, pumped, subscription_updates,
                 output_buffers, clients, client_ids, subs, mboxOpen, pc, hl,
                 nreq, outsideVars>>

\* the lifecycle event the pump forwards for a state, if any
ServerEvent(ev) ==
  CASE ev.st = "Exited" -> EventMsg("Exited", ev.ch)
    [] ev.st = "Killed" -> EventMsg("Killed", ev.ch)
    [] OTHER -> NoMsg

\* handle_channel_event, StateChanged: the unsubscribes under the write lock
PumpStateChanged ==
  /\ pumpPc = "recv"
  /\ pumped < Len(sinkLog)
  /\ LET ev == sinkLog[pumped + 1]
         affected == IF ev.st \in {"Killed", "Exited"}
                     THEN {s \in clients : is_subscribed(subs[s], ev.ch)}
                     ELSE {}
     IN  /\ ev.k = "StateChanged"
         /\ ev.st \in {"Killed", "Exited"} => WriteLockFree
         /\ subs' = [s \in Clients |->
                       IF s \in affected THEN Unsubscribe(subs[s], <<ev.ch>>)
                       ELSE subs[s]]
         /\ subscription_updates' =
              {<<s, Unsubscribe(subs[s], <<ev.ch>>)>> : s \in affected}
         /\ IF affected # {}
            THEN pumpPc' = "notify" /\ pumpEv' = ev
            ELSE IF ServerEvent(ev) # NoMsg
                 THEN pumpPc' = "broadcast" /\ pumpEv' = ev
                 ELSE pumpPc' = "recv" /\ pumpEv' = NoEvent
  /\ pumped' = pumped + 1
  /\ UNCHANGED <<chanVars, sinkLog, recipients, output_buffers, clients,
                 client_ids, mboxOpen, sent, pc, hl, nreq,
                 suspended, outsideVars>>

\* a pump that told every client of the map its set, affected or not
NotifySendsAll ==
  [s \in Clients |->
     IF s \in clients THEN SendTo(sent[s], s, SubscriptionChanged(subs[s]))
     ELSE sent[s]]

\* handle_channel_event, StateChanged: SubscriptionChanged to the affected
NotifySends ==
  [s \in Clients |->
     IF s \in clients /\ \E u \in subscription_updates : u[1] = s
     THEN SendTo(sent[s], s, SubscriptionChanged(
            (CHOOSE u \in subscription_updates : u[1] = s)[2]))
     ELSE sent[s]]

PumpNotify ==
  /\ pumpPc = "notify"
  /\ Finish("pump", NotifySends)
  /\ subscription_updates' = {}
  /\ pumpPc' = "broadcast"
  /\ UNCHANGED <<chanVars, sinkLog, pumped, pumpEv, recipients,
                 output_buffers, clients, client_ids, subs, mboxOpen, pc, hl,
                 nreq, outsideVars>>

\* a broadcast that reached only the clients holding a subscription
BroadcastToSubscribed(m) == [s \in Clients |->
                   IF s \in clients /\ subs[s] # {}
                   THEN SendTo(sent[s], s, m) ELSE sent[s]]

\* broadcast_to_clients: one message to every client of the map
Broadcast(m) == [s \in Clients |->
                   IF s \in clients THEN SendTo(sent[s], s, m) ELSE sent[s]]

\* handle_channel_event, StateChanged: the Exited or Killed broadcast
PumpBroadcast ==
  /\ pumpPc = "broadcast"
  /\ Finish("pump", Broadcast(ServerEvent(pumpEv)))
  /\ pumpPc' = "recv"
  /\ pumpEv' = NoEvent
  /\ UNCHANGED <<chanVars, sinkLog, pumped, recipients, subscription_updates,
                 output_buffers, clients, client_ids, subs, mboxOpen, pc, hl,
                 nreq, outsideVars>>

\* --------------------------------------------------- the channel manager
\* ChannelManager::list_channels
list_channels == DOMAIN channels

\* ChannelManager::is_subscribed: the session-level subscription list
manager_is_subscribed(name) == name \in subscribed_channels

\* ChannelManager::list_channels_info
list_channels_info ==
  {[name |-> c,
    running |-> is_alive(channels[c].state),
    is_active |-> (active_channel = c),
    is_subscribed |-> manager_is_subscribed(c)] : c \in DOMAIN channels}

\* ChannelManager::kill_channel: the active channel after name is killed
ReselectActive(name) ==
  IF active_channel = name
  THEN IF DOMAIN channels \ {name} = {} THEN {NoChannel}
       ELSE DOMAIN channels \ {name}
  ELSE {active_channel}

\* what clients may ask to subscribe to, or to unsubscribe from
SubscribeRequests == {<<"a">>, <<"b">>, <<"*">>, <<"a", "b">>}
UnsubscribeRequests == {<<"a">>, <<"b">>}

\* a Subscribe that kept every requested name, known or not
TargetChannelsUnfiltered(req) ==
  IF \E i \in 1..Len(req) : req[i] = "*"
  THEN Orderings(list_channels)
  ELSE {req}

\* process_message, Subscribe: the channels the request comes down to
TargetChannels(req) ==
  IF \E i \in 1..Len(req) : req[i] = "*"
  THEN Orderings(list_channels)
  ELSE {SelectSeq(req, LAMBDA c : c \in list_channels)}

\* a create_channel that did not look for the name among its channels
create_channel_result_unchecked(name, spawned) ==
  IF ~spawned THEN "spawn failed" ELSE "ok"

\* ChannelManager::create_channel: how a call ends
create_channel_result(name, spawned) ==
  IF name \in DOMAIN channels THEN "already exists"
  ELSE IF ~spawned THEN "spawn failed"
  ELSE "ok"

\* a create_channel that took "no active channel" for "first channel"
is_first_or_none_active == DOMAIN channels = {} \/ active_channel = NoChannel

\* ChannelManager::create_channel: the channel is the first of the session
is_first == DOMAIN channels = {}

\* ChannelManager::create_channel.  spawned: whether the PTY and the child
\* could be made (it is not tried for a name that is taken)
create_channel(name, spawned) ==
  /\ name = "b" => "a" \in DOMAIN channels
  /\ IF create_channel_result(name, spawned) = "ok"
     THEN /\ EventRoom
          /\ channels' = Put(channels, name, SpawnedChannel)
          /\ waiterPc' = [waiterPc EXCEPT ![name] = "waiting"]
          /\ IF is_first
             THEN /\ active_channel' = name
                  /\ subscribed_channels' = subscribed_channels \cup {name}
             ELSE UNCHANGED <<active_channel, subscribed_channels>>
          /\ sinkLog' = Append(sinkLog, StateChanged(name, "Running"))
          /\ UNCHANGED produced
     ELSE /\ create_channel_result(name, spawned) = "already exists"
               => ~spawned
          /\ UNCHANGED <<chanVars, sinkLog>>

\* ChannelManager::kill_channel with PtyChannel::kill: how a call ends.
\* signalled: whether the signal could be delivered
kill_channel_result(name, signalled) ==
  IF name \notin DOMAIN channels THEN "not found"
  ELSE IF channels[name].killer /\ ~signalled THEN "kill failed"
  ELSE "ok"

\* ChannelManager::kill_channel with PtyChannel::kill.  The signal can be
\* delivered until the waiter has reaped the child; afterwards it may or may
\* not.  Without a killer left nothing is signalled and the call succeeds.
kill_channel(name, signalled) ==
  CASE kill_channel_result(name, signalled) = "not found" ->
         /\ signalled
         /\ UNCHANGED <<chanVars, sinkLog>>
    [] kill_channel_result(name, signalled) = "kill failed" ->
         /\ waiterPc[name] # "waiting"
         /\ channels' = [channels EXCEPT ![name].killer = FALSE]
         /\ UNCHANGED <<active_channel, subscribed_channels, waiterPc,
                        produced, sinkLog>>
    [] OTHER ->
         /\ signalled
         /\ EventRoom
         /\ channels' = [channels EXCEPT ![name] =
                           [state |-> "Killed", killer |-> FALSE]]
         /\ active_channel' \in ReselectActive(name)
         /\ subscribed_channels' = subscribed_channels \ {name}
         /\ sinkLog' = Append(sinkLog, StateChanged(name, "Killed"))
         /\ UNCHANGED <<waiterPc, produced>>

\* a write that did not look at the channel's state
write_result_unchecked(st, accepted) ==
  IF ~accepted THEN "write failed" ELSE "ok"

\* PtyChannel::write: how a call ends.  accepted: whether the PTY takes the
\* bytes
write_result(st, accepted) ==
  IF ~is_alive(st) THEN "not running"
  ELSE IF ~accepted THEN "write failed"
  ELSE "ok"

\* ChannelManager::send_input_to: how a call ends
send_input_to_result(name, accepted) ==
  IF name \notin DOMAIN channels THEN "not found"
  ELSE write_result(channels[name].state, accepted)

\* ChannelManager::send_input_to with PtyChannel::write
send_input_to(name, accepted) ==
  /\ send_input_to_result(name, accepted) \in {"not found", "not running"}
       => accepted
  /\ written' = IF send_input_to_result(name, accepted) = "ok"
                THEN [written EXCEPT ![name] = @ + 1]
                ELSE written

\* ChannelManager::send_input: how a call ends
send_input_result(accepted) ==
  IF active_channel = NoChannel THEN "no active channel"
  ELSE send_input_to_result(active_channel, accepted)

\* ChannelManager::send_input
send_input(accepted) ==
  IF active_channel = NoChannel
  THEN accepted /\ written' = written
  ELSE send_input_to(active_channel, accepted)

\* a switch_active that took any name
switch_active_result_unchecked(name) == "ok"

\* ChannelManager::switch_active: how a call ends
switch_active_result(name) ==
  IF name \notin DOMAIN channels THEN "not found" ELSE "ok"

\* ChannelManager::switch_active
switch_active(name) ==
  active_channel' = IF switch_active_result(name) = "ok" THEN name
                    ELSE active_channel

\* ------------------------------------------------- handle_client: attach
\* accept; the read-locked look at the active channel; the default subscription
Accept(s) ==
  /\ pc[s] = "Idle"
  /\ dpc["d1"] = "accepting" /\ socket_file = "d1"
  /\ s = "c2" => pc["c1"] # "Idle"
  /\ LET initial == IF active_channel = NoChannel THEN <<>>
                    ELSE <<active_channel>>
     IN  /\ hl' = [hl EXCEPT ![s].chans = initial]
         /\ subs' = [subs EXCEPT ![s] = Subscribe({}, initial)]
  /\ mboxOpen' = [mboxOpen EXCEPT ![s] = TRUE]
  /\ pc' = [pc EXCEPT ![s] = "Add"]
  /\ UNCHANGED <<chanVars, sinkLog, pumped, pumpVars, output_buffers, clients,
                 client_ids, sent, nreq, suspended, outsideVars>>

\* the client is added to the state, under the write lock
AddClient(s) ==
  /\ pc[s] = "Add"
  /\ WriteLockFree
  /\ clients' = clients \cup {s}
  /\ client_ids' = Append(client_ids, s)
  /\ pc' = [pc EXCEPT ![s] = "Welcome"]
  /\ UNCHANGED <<chanVars, sinkLog, pumped, pumpVars, output_buffers, subs,
                 mboxOpen, sent, hl, nreq, suspended, outsideVars>>

\* handle_client: the Welcome send
WelcomeSend(s) == [sent EXCEPT ![s] = Append(@, create_welcome_message)]

\* Welcome is sent; a failed send ends the handler at once
SendWelcome(s) ==
  /\ pc[s] = "Welcome"
  /\ IF mboxOpen[s]
     THEN /\ Finish(s, WelcomeSend(s))
          /\ IF hl[s].chans # <<>>
             THEN /\ pc' = [pc EXCEPT ![s] = "ReplaySnap"]
                  /\ hl' = [hl EXCEPT ![s].ret = "Loop"]
             ELSE /\ pc' = [pc EXCEPT ![s] = "Loop"]
                  /\ hl' = hl
     ELSE /\ pc' = [pc EXCEPT ![s] = "Aborted"]
          /\ hl' = [hl EXCEPT ![s] = NoLocals]
          /\ UNCHANGED <<sent, suspended>>
  /\ UNCHANGED <<chanVars, sinkLog, pumped, pumpVars, output_buffers, clients,
                 client_ids, subs, mboxOpen, nreq, outsideVars>>

\* send_buffered_output: the copy of the buffers, under one read lock
BufferSnapshot(chans) ==
  LET have == SelectSeq(chans, LAMBDA c : c \in DOMAIN output_buffers)
  IN  [i \in 1..Len(have) |-> <<have[i], output_buffers[have[i]]>>]

ReplaySnapshot(s) ==
  /\ pc[s] = "ReplaySnap"
  /\ LET buffers == BufferSnapshot(hl[s].chans)
     IN  IF buffers = <<>>
         THEN /\ pc' = [pc EXCEPT ![s] = hl[s].ret]
              /\ hl' = [hl EXCEPT ![s].chans = <<>>, ![s].ret = ""]
         ELSE /\ pc' = [pc EXCEPT ![s] = "ReplaySend"]
              /\ hl' = [hl EXCEPT ![s].chans = <<>>, ![s].snap = buffers]
  /\ UNCHANGED <<chanVars, sinkLog, pumped, pumpVars, output_buffers, clients,
                 client_ids, subs, mboxOpen, sent, nreq,
                 suspended, outsideVars>>

\* the Output messages of a copy of the buffers, channel by channel
RECURSIVE ReplayMessages(_)
ReplayMessages(buffers) ==
  IF buffers = <<>> THEN <<>>
  ELSE LET c == Head(buffers)[1]
           entries == Head(buffers)[2]
       IN  [i \in 1..Len(entries) |-> OutputMsg(c, entries[i])]
             \o ReplayMessages(Tail(buffers))

\* send_buffered_output: the sends, under a second read lock
ReplaySends(s) ==
  [sent EXCEPT ![s] = IF s \in clients /\ mboxOpen[s]
                      THEN @ \o ReplayMessages(hl[s].snap) ELSE @]

ReplaySend(s) ==
  /\ pc[s] = "ReplaySend"
  /\ Finish(s, ReplaySends(s))
  /\ pc' = [pc EXCEPT ![s] = hl[s].ret]
  /\ hl' = [hl EXCEPT ![s].snap = <<>>, ![s].ret = ""]
  /\ UNCHANGED <<chanVars, sinkLog, pumped, pumpVars, output_buffers, clients,
                 client_ids, subs, mboxOpen, nreq, outsideVars>>

\* --------------------------------------- handle_client: the message loop
\* a request is read
Reads(s) == pc[s] = "Loop" /\ EnvStep

\* handle_client: the response send
ResponseSend(s) ==
  [sent EXCEPT ![s] = IF s \in clients THEN Append(@, hl[s].resp) ELSE @]

\* the response is sent; a failed send leaves the loop
Respond(s) ==
  /\ pc[s] = "Respond"
  /\ IF s \in clients /\ ~mboxOpen[s]
     THEN /\ pc' = [pc EXCEPT ![s] = "Cleanup"]
          /\ Finish(s, sent)
     ELSE /\ pc' = [pc EXCEPT ![s] = "Loop"]
          /\ Finish(s, ResponseSend(s))
  /\ hl' = [hl EXCEPT ![s] = NoLocals]
  /\ UNCHANGED <<chanVars, sinkLog, pumped, pumpVars, output_buffers, clients,
                 client_ids, subs, mboxOpen, nreq, outsideVars>>

\* process_message, Hello: the answer to a protocol version
HelloResponse(v) ==
  IF v # PROTOCOL_VERSION THEN create_error_message("Protocol version mismatch")
  ELSE Ack("Hello")

\* Hello is read and processed (no lock is taken)
Hello(s, v) ==
  /\ Reads(s)
  /\ hl' = [hl EXCEPT ![s].resp = HelloResponse(v)]
  /\ pc' = [pc EXCEPT ![s] = "Respond"]
  /\ UNCHANGED <<chanVars, sinkLog, pumped, pumpVars, output_buffers, clients,
                 client_ids, subs, mboxOpen, sent, suspended, outsideVars>>

\* the requests of the arm that is left for later: what is asked, and of
\* which channel
Phase2Requests ==
  {<<"SwitchChannel", <<c>>>> : c \in Channels}
    \cup {<<"InputTo", <<c>>>> : c \in Channels}
    \cup {<<"Input", <<>>>>, <<"Resize", <<>>>>}

\* process_message, Input / InputTo / SwitchChannel / Resize (no lock is taken)
Phase2(s, r) ==
  /\ Reads(s)
  /\ hl' = [hl EXCEPT ![s].resp = create_error_message(
                                    "Channel operations not yet implemented"),
                      ![s].cmd = r[1],
                      ![s].req = r[2]]
  /\ pc' = [pc EXCEPT ![s] = "Respond"]
  /\ UNCHANGED <<chanVars, sinkLog, pumped, pumpVars, output_buffers, clients,
                 client_ids, subs, mboxOpen, sent, suspended, outsideVars>>

\* process_message, Detach (no lock is taken)
Detach(s) ==
  /\ Reads(s)
  /\ hl' = [hl EXCEPT ![s].resp = Ack("Detach"), ![s].cmd = "Detach"]
  /\ pc' = [pc EXCEPT ![s] = "Respond"]
  /\ UNCHANGED <<chanVars, sinkLog, pumped, pumpVars, output_buffers, clients,
                 client_ids, subs, mboxOpen, sent, suspended, outsideVars>>

\* process_message, Shutdown (no lock is taken)
Shutdown(s) ==
  /\ Reads(s)
  /\ hl' = [hl EXCEPT ![s].resp = Ack("Shutdown"), ![s].cmd = "Shutdown"]
  /\ pc' = [pc EXCEPT ![s] = "Respond"]
  /\ UNCHANGED <<chanVars, sinkLog, pumped, pumpVars, output_buffers, clients,
                 client_ids, subs, mboxOpen, sent, suspended, outsideVars>>

\* handle_client: a frame is read whose payload parse_client_message rejects
BadFrame(s) ==
  /\ Reads(s)
  /\ hl' = [hl EXCEPT ![s].resp = create_error_message("Invalid message")]
  /\ pc' = [pc EXCEPT ![s] = "Invalid"]
  /\ UNCHANGED <<chanVars, sinkLog, pumped, pumpVars, output_buffers, clients,
                 client_ids, subs, mboxOpen, sent, suspended, outsideVars>>

\* handle_client: the Error for it is sent under the read lock; the outcome of
\* the send is dropped and the loop goes on
SendInvalid(s) ==
  /\ pc[s] = "Invalid"
  /\ Finish(s, IF mboxOpen[s] THEN ResponseSend(s) ELSE sent)
  /\ pc' = [pc EXCEPT ![s] = "Loop"]
  /\ hl' = [hl EXCEPT ![s] = NoLocals]
  /\ UNCHANGED <<chanVars, sinkLog, pumped, pumpVars, output_buffers, clients,
                 client_ids, subs, mboxOpen, nreq, outsideVars>>

\* process_message, CreateChannel: create_channel and the buffer entry, all
\* under the write lock.  spawned: whether the PTY and the child could be made.
\* The reader and the waiter of the new channel run from the spawn on; what
\* they publish is taken to follow the Running event that create_channel
\* sends before the lock is released.
CreateChannel(s, name, spawned) ==
  /\ Reads(s)
  /\ WriteLockFree
  /\ create_channel(name, spawned)
  /\ IF create_channel_result(name, spawned) = "ok"
     THEN /\ output_buffers' =
               IF name \in DOMAIN output_buffers THEN output_buffers
               ELSE Put(output_buffers, name, <<>>)
          /\ hl' = [hl EXCEPT ![s].resp = Ack("CreateChannel"),
                              ![s].chans = <<name>>,
                              ![s].req = <<name>>]
          /\ pc' = [pc EXCEPT ![s] = "Created"]
     ELSE /\ hl' = [hl EXCEPT ![s].resp = create_error_message(
                                   create_channel_result(name, spawned)),
                              ![s].req = <<name>>]
          /\ pc' = [pc EXCEPT ![s] = "Respond"]
          /\ UNCHANGED output_buffers
  /\ UNCHANGED <<pumped, pumpVars, clients, client_ids, subs, mboxOpen, sent,
                 suspended, outsideVars>>

\* process_message, CreateChannel: Event(Created) to all, under the read lock
BroadcastCreated(s) ==
  /\ pc[s] = "Created"
  /\ Finish(s, Broadcast(EventMsg("Created", hl[s].chans[1])))
  /\ hl' = [hl EXCEPT ![s].chans = <<>>]
  /\ pc' = [pc EXCEPT ![s] = "Respond"]
  /\ UNCHANGED <<chanVars, sinkLog, pumped, pumpVars, output_buffers, clients,
                 client_ids, subs, mboxOpen, nreq, outsideVars>>

\* process_message, KillChannel: kill_channel under the write lock
KillChannel(s, name, signalled) ==
  /\ Reads(s)
  /\ WriteLockFree
  /\ kill_channel(name, signalled)
  /\ hl' = [hl EXCEPT ![s].resp =
                        IF kill_channel_result(name, signalled) = "ok"
                        THEN Ack("KillChannel")
                        ELSE create_error_message(
                               kill_channel_result(name, signalled)),
                      ![s].req = <<name>>]
  /\ pc' = [pc EXCEPT ![s] = "Respond"]
  /\ UNCHANGED <<pumped, pumpVars, output_buffers, clients, client_ids, subs,
                 mboxOpen, sent, suspended, outsideVars>>

\* a ListChannels that passed the manager's session-level flags on
ManagerChannelInfos(S) == list_channels_info

\* process_message, ListChannels: the manager's list with this client's own
\* subscription flags
ClientChannelInfos(S) ==
  {[info EXCEPT !.is_subscribed = is_subscribed(S, info.name)] :
     info \in list_channels_info}

\* process_message, ListChannels, under the read lock
ListChannels(s) ==
  /\ Reads(s)
  /\ s \in clients
  /\ hl' = [hl EXCEPT ![s].resp = ChannelList(ClientChannelInfos(subs[s]))]
  /\ pc' = [pc EXCEPT ![s] = "Respond"]
  /\ UNCHANGED <<chanVars, sinkLog, pumped, pumpVars, output_buffers, clients,
                 client_ids, subs, mboxOpen, sent, suspended, outsideVars>>

\* process_message, Subscribe: the known channels, under the read lock
SubscribeTarget(s, req) ==
  /\ Reads(s)
  /\ \E target \in TargetChannels(req) :
       hl' = [hl EXCEPT ![s].chans = target, ![s].req = req]
  /\ pc' = [pc EXCEPT ![s] = "Subscribe"]
  /\ UNCHANGED <<chanVars, sinkLog, pumped, pumpVars, output_buffers, clients,
                 client_ids, subs, mboxOpen, sent, suspended, outsideVars>>

\* process_message, Subscribe: the client's set grows, under the write lock
SubscribeWrite(s) ==
  /\ pc[s] = "Subscribe"
  /\ WriteLockFree
  /\ IF s \in clients
     THEN LET newly_added == NewlyAdded(subs[s], hl[s].chans)
              after == Subscribe(subs[s], hl[s].chans)
          IN  /\ subs' = [subs EXCEPT ![s] = after]
              /\ IF newly_added # <<>>
                 THEN /\ pc' = [pc EXCEPT ![s] = "ReplaySnap"]
                      /\ hl' = [hl EXCEPT ![s].chans = newly_added,
                                          ![s].resp = SubscriptionChanged(after),
                                          ![s].ret = "Respond"]
                 ELSE /\ pc' = [pc EXCEPT ![s] = "Respond"]
                      /\ hl' = [hl EXCEPT ![s].chans = <<>>,
                                          ![s].resp = SubscriptionChanged(after)]
     ELSE /\ subs' = subs
          /\ pc' = [pc EXCEPT ![s] = "Respond"]
          /\ hl' = [hl EXCEPT ![s].chans = <<>>,
                      ![s].resp = create_error_message("Client not found")]
  /\ UNCHANGED <<chanVars, sinkLog, pumped, pumpVars, output_buffers, clients,
                 client_ids, mboxOpen, sent, nreq, suspended, outsideVars>>

\* process_message, Unsubscribe, under the write lock
UnsubscribeReq(s, req) ==
  /\ Reads(s)
  /\ WriteLockFree
  /\ IF s \in clients
     THEN /\ subs' = [subs EXCEPT ![s] = Unsubscribe(@, req)]
          /\ hl' = [hl EXCEPT ![s].resp =
                      SubscriptionChanged(Unsubscribe(subs[s], req))]
     ELSE /\ subs' = subs
          /\ hl' = [hl EXCEPT ![s].resp =
                      create_error_message("Client not found")]
  /\ pc' = [pc EXCEPT ![s] = "Respond"]
  /\ UNCHANGED <<chanVars, sinkLog, pumped, pumpVars, output_buffers, clients,
                 client_ids, mboxOpen, sent, suspended, outsideVars>>

\* a session that kept the ids of the clients that left
remove_client_kept(ids, s) == ids

\* Session::remove_client
remove_client(ids, s) == SelectSeq(ids, LAMBDA x : x # s)

\* the end of handle_client: the client leaves the state, its writer is aborted
Cleanup(s) ==
  /\ WriteLockFree
  /\ clients' = clients \ {s}
  /\ client_ids' = remove_client(client_ids, s)
  /\ mboxOpen' = [mboxOpen EXCEPT ![s] = FALSE]
  /\ pc' = [pc EXCEPT ![s] = "Gone"]
  /\ hl' = [hl EXCEPT ![s] = NoLocals]
  /\ UNCHANGED <<chanVars, sinkLog, pumped, pumpVars, output_buffers, subs,
                 sent, suspended, outsideVars>>

\* read_message returns end of file or an error: the loop is left
Disconnect(s) == pc[s] = "Loop" /\ EnvStep /\ Cleanup(s)

\* the loop was left after a failed response
CleanupAfterBreak(s) == pc[s] = "Cleanup" /\ nreq' = nreq /\ Cleanup(s)

\* client_writer_task: a write to the socket fails and the task ends,
\* dropping the receiving end of the mailbox
WriterFail(s) ==
  /\ EnvStep
  /\ mboxOpen[s]
  /\ pc[s] \notin {"Idle", "Add"}
  /\ sent[s] # <<>>
  /\ mboxOpen' = [mboxOpen EXCEPT ![s] = FALSE]
  /\ UNCHANGED <<chanVars, sinkLog, pumped, pumpVars, output_buffers, clients,
                 client_ids, subs, sent, pc, hl, suspended, outsideVars>>

\* ----------------------------------------------------------------- Next
Next ==
  \/ \E c \in Channels : ReaderPublish(c)
  \/ \E c \in Channels : WaiterObserve(c)
  \/ \E c \in Channels : WaiterNotify(c)
  \/ PumpOutput
  \/ PumpSend
  \/ PumpStateChanged
  \/ PumpNotify
  \/ PumpBroadcast
  \/ \E s \in Clients : Accept(s)
  \/ \E s \in Clients : AddClient(s)
  \/ \E s \in Clients : SendWelcome(s)
  \/ \E s \in Clients : ReplaySnapshot(s)
  \/ \E s \in Clients : ReplaySend(s)
  \/ \E s \in Clients : Respond(s)
  \/ \E s \in Clients, v \in Versions : Hello(s, v)
  \/ \E s \in Clients, r \in Phase2Requests : Phase2(s, r)
  \/ \E s \in Clients : Detach(s)
  \/ \E s \in Clients : Shutdown(s)
  \/ \E s \in Clients : BadFrame(s)
  \/ \E s \in Clients : SendInvalid(s)
  \/ \E s \in Clients, name \in Channels, spawned \in BOOLEAN :
       CreateChannel(s, name, spawned)
  \/ \E s \in Clients : BroadcastCreated(s)
  \/ \E s \in Clients, name \in Channels, signalled \in BOOLEAN :
       KillChannel(s, name, signalled)
  \/ \E s \in Clients : ListChannels(s)
  \/ \E s \in Clients, req \in SubscribeRequests : SubscribeTarget(s, req)
  \/ \E s \in Clients : SubscribeWrite(s)
  \/ \E s \in Clients, req \in UnsubscribeRequests : UnsubscribeReq(s, req)
  \/ \E s \in Clients : Disconnect(s)
  \/ \E s \in Clients : CleanupAfterBreak(s)
  \/ \E s \in Clients : WriterFail(s)

Spec == Init /\ [][Next]_vars

\* ------------------------------------------- the channel manager on its own
\* The manager with its channels' threads, as the listener drives it: every
\* call is made under the listener's write lock, so calls do not overlap.
\* More calls fit in here than a session with two clients has room for.
MgrCreate(name, spawned) ==
  /\ EnvStep
  /\ create_channel(name, spawned)
  /\ mgr_call' = Call("create_channel", name,
                      create_channel_result(name, spawned))
  /\ UNCHANGED <<pumped, pumpVars, output_buffers, clients, client_ids, subs,
                 mboxOpen, sent, pc, hl, suspended, mailboxFull, hostVars,
                 codecVars, written>>

MgrKill(name, signalled) ==
  /\ EnvStep
  /\ kill_channel(name, signalled)
  /\ mgr_call' = Call("kill_channel", name,
                      kill_channel_result(name, signalled))
  /\ UNCHANGED <<pumped, pumpVars, output_buffers, clients, client_ids, subs,
                 mboxOpen, sent, pc, hl, suspended, mailboxFull, hostVars,
                 codecVars, written>>

MgrSwitch(name) ==
  /\ EnvStep
  /\ switch_active(name)
  /\ mgr_call' = Call("switch_active", name, switch_active_result(name))
  /\ UNCHANGED <<channels, subscribed_channels, waiterPc, produced, written,
                 sinkLog, pumped, pumpVars, output_buffers, clients,
                 client_ids, subs, mboxOpen, sent, pc, hl, suspended,
                 mailboxFull, hostVars, codecVars>>

MgrInputTo(name, accepted) ==
  /\ EnvStep
  /\ send_input_to(name, accepted)
  /\ mgr_call' = Call("send_input_to", name,
                      send_input_to_result(name, accepted))
  /\ UNCHANGED <<chanVars, sinkLog, pumped, pumpVars, output_buffers, clients,
                 client_ids, subs, mboxOpen, sent, pc, hl, suspended,
                 mailboxFull, hostVars, codecVars>>

MgrInput(accepted) ==
  /\ EnvStep
  /\ send_input(accepted)
  /\ mgr_call' = Call("send_input", active_channel,
                      send_input_result(accepted))
  /\ UNCHANGED <<chanVars, sinkLog, pumped, pumpVars, output_buffers, clients,
                 client_ids, subs, mboxOpen, sent, pc, hl, suspended,
                 mailboxFull, hostVars, codecVars>>

MgrNext ==
  \/ \E name \in Channels, spawned \in BOOLEAN : MgrCreate(name, spawned)
  \/ \E name \in Channels, signalled \in BOOLEAN : MgrKill(name, signalled)
  \/ \E name \in Channels : MgrSwitch(name)
  \/ \E name \in Channels, accepted \in BOOLEAN : MgrInputTo(name, accepted)
  \/ \E accepted \in BOOLEAN : MgrInput(accepted)
  \/ \E c \in Channels : ReaderPublish(c)
  \/ \E c \in Channels : WaiterObserve(c)
  \/ \E c \in Channels : WaiterNotify(c)

MgrInit == Constructed /\ nreq = MaxOps

ManagerSpec == MgrInit /\ [][MgrNext]_vars

\* --------------------------------------------- a session with one client
\* Only c1 ever connects, which leaves room for more steps.
SoloInit == Constructed /\ nreq = MaxSoloSteps

Solo == {"c1"}

SoloNext ==
  \/ \E c \in Channels : ReaderPublish(c)
  \/ \E c \in Channels : WaiterObserve(c)
  \/ \E c \in Channels : WaiterNotify(c)
  \/ PumpOutput
  \/ PumpSend
  \/ PumpStateChanged
  \/ PumpNotify
  \/ PumpBroadcast
  \/ \E s \in Solo : Accept(s)
  \/ \E s \in Solo : AddClient(s)
  \/ \E s \in Solo : SendWelcome(s)
  \/ \E s \in Solo : ReplaySnapshot(s)
  \/ \E s \in Solo : ReplaySend(s)
  \/ \E s \in Solo : Respond(s)
  \/ \E s \in Solo, v \in Versions : Hello(s, v)
  \/ \E s \in Solo, r \in Phase2Requests : Phase2(s, r)
  \/ \E s \in Solo : Detach(s)
  \/ \E s \in Solo : Shutdown(s)
  \/ \E s \in Solo : BadFrame(s)
  \/ \E s \in Solo : SendInvalid(s)
  \/ \E s \in Solo, name \in Channels, spawned \in BOOLEAN :
       CreateChannel(s, name, spawned)
  \/ \E s \in Solo : BroadcastCreated(s)
  \/ \E s \in Solo, name \in Channels, signalled \in BOOLEAN :
       KillChannel(s, name, signalled)
  \/ \E s \in Solo : ListChannels(s)
  \/ \E s \in Solo, req \in SubscribeRequests : SubscribeTarget(s, req)
  \/ \E s \in Solo : SubscribeWrite(s)
  \/ \E s \in Solo, req \in UnsubscribeRequests : UnsubscribeReq(s, req)
  \/ \E s \in Solo : Disconnect(s)
  \/ \E s \in Solo : CleanupAfterBreak(s)
  \/ \E s \in Solo : WriterFail(s)

SoloSpec == SoloInit /\ [][SoloNext]_vars

\* ------------------------------------------ a session with a slow client
\* The pump's section of sends, by its position
PumpSends ==
  CASE pumpPc = "send" -> OutputSends
    [] pumpPc = "notify" -> NotifySends
    [] pumpPc = "broadcast" -> Broadcast(ServerEvent(pumpEv))
    [] OTHER -> sent

\* handle_channel_event: a send of the pump suspends at a full mailbox
PumpSuspends ==
  /\ Suspends("pump", PumpSends)
  /\ UNCHANGED <<chanVars, sinkLog, pumped, pumpVars, output_buffers, clients,
                 client_ids, subs, mboxOpen, pc, hl, nreq, outsideVars>>

\* a handler's section of sends, by its position
HandlerSends(s) ==
  CASE pc[s] = "Welcome" -> WelcomeSend(s)
    [] pc[s] = "ReplaySend" -> ReplaySends(s)
    [] pc[s] = "Created" -> Broadcast(EventMsg("Created", hl[s].chans[1]))
    [] pc[s] \in {"Respond", "Invalid"} -> ResponseSend(s)
    [] OTHER -> sent

\* handle_client: a send of the handler suspends at a full mailbox
HandlerSuspends(s) ==
  /\ Suspends(s, HandlerSends(s))
  /\ UNCHANGED <<chanVars, sinkLog, pumped, pumpVars, output_buffers, clients,
                 client_ids, subs, mboxOpen, pc, hl, nreq, outsideVars>>

\* the peer reads again: the writer task empties the mailbox
PeerReads(s) ==
  /\ EnvStep
  /\ mboxOpen[s]
  /\ mailboxFull[s]
  /\ mailboxFull' = [mailboxFull EXCEPT ![s] = FALSE]
  /\ UNCHANGED <<chanVars, sinkLog, pumped, pumpVars, output_buffers, clients,
                 client_ids, subs, mboxOpen, sent, pc, hl, suspended,
                 hostVars, codecVars, written, mgr_call>>

\* what c1 has been sent when it has stopped reading with requests still
\* coming: Welcome, then the answers to its Hellos.  The writer task wrote
\* Welcome, is held up in the write of the first answer, and the mailbox
\* holds MAILBOX_CAPACITY more.
SlowLog ==
  [i \in 1..(MAILBOX_CAPACITY + 2) |->
     IF i = 1 THEN create_welcome_message ELSE Ack("Hello")]

SlowInit ==
  /\ channels = EmptyMap
  /\ active_channel = NoChannel
  /\ subscribed_channels = {}
  /\ waiterPc = [c \in Channels |-> "none"]
  /\ produced = [c \in Channels |-> 0]
  /\ sinkLog = <<>>
  /\ pumped = 0
  /\ pumpPc = "recv"
  /\ pumpEv = NoEvent
  /\ recipients = {}
  /\ subscription_updates = {}
  /\ output_buffers = EmptyMap
  /\ clients = {"c1"}
  /\ client_ids = <<"c1">>
  /\ subs = [s \in Clients |-> {}]
  /\ mboxOpen = [s \in Clients |-> s = "c1"]
  /\ sent = [s \in Clients |-> IF s = "c1" THEN SlowLog ELSE <<>>]
  /\ pc = [s \in Clients |-> IF s = "c1" THEN "Loop" ELSE "Idle"]
  /\ hl = [s \in Clients |-> NoLocals]
  /\ suspended = [t \in Tasks |-> <<>>]
  /\ mailboxFull = [s \in Clients |-> s = "c1"]
  /\ Listening
  /\ NoTraffic
  /\ reader = "read_message"
  /\ written = [c \in Channels |-> 0]
  /\ mgr_call = NoCall
  /\ nreq = MaxSlowSteps

SlowNext ==
  \/ \E c \in Channels : ReaderPublish(c)
  \/ \E c \in Channels : WaiterObserve(c)
  \/ \E c \in Channels : WaiterNotify(c)
  \/ PumpOutput
  \/ PumpSend
  \/ PumpStateChanged
  \/ PumpNotify
  \/ PumpBroadcast
  \/ \E s \in Clients : Accept(s)
  \/ \E s \in Clients : AddClient(s)
  \/ \E s \in Clients : SendWelcome(s)
  \/ \E s \in Clients : ReplaySnapshot(s)
  \/ \E s \in Clients : ReplaySend(s)
  \/ \E s \in Clients : Respond(s)
  \/ \E s \in Clients, name \in Channels, spawned \in BOOLEAN :
       CreateChannel(s, name, spawned)
  \/ \E s \in Clients : BroadcastCreated(s)
  \/ \E s \in Clients, name \in Channels, signalled \in BOOLEAN :
       KillChannel(s, name, signalled)
  \/ \E s \in Clients : ListChannels(s)
  \/ \E s \in Clients, req \in SubscribeRequests : SubscribeTarget(s, req)
  \/ \E s \in Clients : SubscribeWrite(s)
  \/ PumpSuspends
  \/ \E s \in Clients : HandlerSuspends(s)
  \/ \E s \in Clients : PeerReads(s)

SlowSpec == SlowInit /\ [][SlowNext]_vars

\* The runtime polls every task that can go on: the pump, the waiter threads
\* and each handler between reading a request and answering it.  Nothing
\* obliges a client to send a request or a peer to read.
DaemonFairness ==
  /\ WF_vars(PumpOutput) /\ WF_vars(PumpSend) /\ WF_vars(PumpStateChanged)
  /\ WF_vars(PumpNotify) /\ WF_vars(PumpBroadcast) /\ WF_vars(PumpSuspends)
  /\ \A c \in Channels : WF_vars(WaiterNotify(c))
  /\ \A s \in Clients :
       /\ WF_vars(AddClient(s)) /\ WF_vars(SendWelcome(s))
       /\ WF_vars(ReplaySnapshot(s)) /\ WF_vars(ReplaySend(s))
       /\ WF_vars(BroadcastCreated(s)) /\ WF_vars(SubscribeWrite(s))
       /\ WF_vars(Respond(s)) /\ WF_vars(HandlerSuspends(s))

SlowLiveSpec == SlowSpec /\ DaemonFairness

\* ------------------------------- a session whose replay buffer is full
\* Channel a was created by a client that has left; its child has written
\* MAX_BUFFERED_OUTPUTS chunks, all of them pumped into the buffer.
FullBufferInit ==
  /\ channels = [c \in {"a"} |-> SpawnedChannel]
  /\ active_channel = "a"
  /\ subscribed_channels = {"a"}
  /\ waiterPc = [c \in Channels |-> IF c = "a" THEN "waiting" ELSE "none"]
  /\ produced = [c \in Channels |-> IF c = "a" THEN MAX_BUFFERED_OUTPUTS ELSE 0]
  /\ sinkLog = <<StateChanged("a", "Running")>>
                 \o [k \in 1..MAX_BUFFERED_OUTPUTS |-> OutputEv("a", k)]
  /\ pumped = MAX_BUFFERED_OUTPUTS + 1
  /\ pumpPc = "recv"
  /\ pumpEv = NoEvent
  /\ recipients = {}
  /\ subscription_updates = {}
  /\ output_buffers = [c \in {"a"} |-> [k \in 1..MAX_BUFFERED_OUTPUTS |-> k]]
  /\ clients = {}
  /\ client_ids = <<>>
  /\ subs = [s \in Clients |-> {}]
  /\ mboxOpen = [s \in Clients |-> FALSE]
  /\ sent = [s \in Clients |-> <<>>]
  /\ pc = [s \in Clients |-> "Idle"]
  /\ hl = [s \in Clients |-> NoLocals]
  /\ suspended = [t \in Tasks |-> <<>>]
  /\ mailboxFull = [s \in Clients |-> FALSE]
  /\ Listening
  /\ NoTraffic
  /\ reader = "read_message"
  /\ written = [c \in Channels |-> 0]
  /\ mgr_call = NoCall
  /\ nreq = MaxBufferSteps

FullBufferSpec == FullBufferInit /\ [][SoloNext]_vars

\* ------------------------------- a session whose event channel is full
\* The steps of the pump and of the CreateChannel and KillChannel handlers one
\* lock and one send at a time.  The pump receives an event without a lock and
\* only then asks for the lock; create_channel and kill_channel send their
\* event, awaiting room on the event channel, while their caller holds the
\* write lock.
\* no handler is inside create_channel or kill_channel, holding the write lock
NoWriter == \A s \in Clients : pc[s] # "Publish"

\* ServerListener::run, the event task: event_rx.recv()
PumpRecv ==
  /\ pumpPc = "recv"
  /\ pumped < Len(sinkLog)
  /\ pumped' = pumped + 1
  /\ LET ev == sinkLog[pumped + 1]
     IN  IF ev.k = "Output" \/ ev.st \in {"Killed", "Exited"}
         THEN pumpPc' = "lock" /\ pumpEv' = ev
         ELSE pumpPc' = "recv" /\ pumpEv' = NoEvent
  /\ UNCHANGED <<chanVars, sinkLog, recipients, subscription_updates,
                 output_buffers, clients, client_ids, subs, mboxOpen, sent,
                 pc, hl, nreq, suspended, outsideVars>>

\* handle_channel_event, Output: the write lock is had, the chunk is buffered
PumpLockOutput ==
  /\ pumpPc = "lock"
  /\ pumpEv.k = "Output"
  /\ WriteLockFree /\ NoWriter
  /\ output_buffers' =
       Put(output_buffers, pumpEv.ch,
           BufferPush(IF pumpEv.ch \in DOMAIN output_buffers
                      THEN output_buffers[pumpEv.ch] ELSE <<>>, pumpEv.n))
  /\ recipients' = OutputRecipients(pumpEv.ch)
  /\ pumpPc' = "send"
  /\ UNCHANGED <<chanVars, sinkLog, pumped, pumpEv, subscription_updates,
                 clients, client_ids, subs, mboxOpen, sent, pc, hl, nreq,
                 suspended, outsideVars>>

\* handle_channel_event, StateChanged to Exited or Killed: the write lock is
\* had, the subscribers are unsubscribed
PumpLockTerminal ==
  /\ pumpPc = "lock"
  /\ pumpEv.k = "StateChanged"
  /\ WriteLockFree /\ NoWriter
  /\ LET affected == {s \in clients : is_subscribed(subs[s], pumpEv.ch)}
     IN  /\ subs' = [s \in Clients |->
                       IF s \in affected
                       THEN Unsubscribe(subs[s], <<pumpEv.ch>>)
                       ELSE subs[s]]
         /\ subscription_updates' =
              {<<s, Unsubscribe(subs[s], <<pumpEv.ch>>)>> : s \in affected}
         /\ pumpPc' = IF affected # {} THEN "notify" ELSE "broadcast"
  /\ UNCHANGED <<chanVars, sinkLog, pumped, pumpEv, recipients,
                 output_buffers, clients, client_ids, mboxOpen, sent, pc, hl,
                 nreq, suspended, outsideVars>>

\* process_message, CreateChannel: the write lock is had and create_channel
\* runs up to its send
CreateLocked(s, name, spawned) ==
  /\ Reads(s)
  /\ WriteLockFree /\ NoWriter
  /\ name = "b" => "a" \in DOMAIN channels
  /\ IF create_channel_result(name, spawned) = "ok"
     THEN /\ channels' = Put(channels, name, SpawnedChannel)
          /\ waiterPc' = [waiterPc EXCEPT ![name] = "waiting"]
          /\ IF is_first
             THEN /\ active_channel' = name
                  /\ subscribed_channels' = subscribed_channels \cup {name}
             ELSE UNCHANGED <<active_channel, subscribed_channels>>
          /\ UNCHANGED produced
          /\ hl' = [hl EXCEPT ![s].req = <<name>>, ![s].cmd = "CreateChannel"]
          /\ pc' = [pc EXCEPT ![s] = "Publish"]
     ELSE /\ create_channel_result(name, spawned) = "already exists"
               => ~spawned
          /\ UNCHANGED chanVars
          /\ hl' = [hl EXCEPT ![s].resp = create_error_message(
                                   create_channel_result(name, spawned)),
                              ![s].req = <<name>>]
          /\ pc' = [pc EXCEPT ![s] = "Respond"]
  /\ UNCHANGED <<sinkLog, pumped, pumpVars, output_buffers, clients,
                 client_ids, subs, mboxOpen, sent, suspended, outsideVars>>

\* create_channel: the send of StateChanged Running finds room; back in
\* process_message the buffer entry is made and the write lock released
CreatePublish(s) ==
  /\ pc[s] = "Publish"
  /\ hl[s].cmd = "CreateChannel"
  /\ EventRoom
  /\ sinkLog' = Append(sinkLog, StateChanged(hl[s].req[1], "Running"))
  /\ output_buffers' =
       IF hl[s].req[1] \in DOMAIN output_buffers THEN output_buffers
       ELSE Put(output_buffers, hl[s].req[1], <<>>)
  /\ hl' = [hl EXCEPT ![s].resp = Ack("CreateChannel"),
                      ![s].chans = hl[s].req,
                      ![s].cmd = ""]
  /\ pc' = [pc EXCEPT ![s] = "Created"]
  /\ UNCHANGED <<chanVars, pumped, pumpVars, clients, client_ids, subs,
                 mboxOpen, sent, nreq, suspended, outsideVars>>

\* process_message, KillChannel: the write lock is had and kill_channel runs
\* up to its send
KillLocked(s, name, signalled) ==
  /\ Reads(s)
  /\ WriteLockFree /\ NoWriter
  /\ CASE kill_channel_result(name, signalled) = "not found" ->
            /\ signalled
            /\ UNCHANGED chanVars
            /\ hl' = [hl EXCEPT ![s].resp = create_error_message("not found"),
                                ![s].req = <<name>>]
            /\ pc' = [pc EXCEPT ![s] = "Respond"]
       [] kill_channel_result(name, signalled) = "kill failed" ->
            /\ waiterPc[name] # "waiting"
            /\ channels' = [channels EXCEPT ![name].killer = FALSE]
            /\ UNCHANGED <<active_channel, subscribed_channels, waiterPc,
                           produced>>
            /\ hl' = [hl EXCEPT ![s].resp = create_error_message("kill failed"),
                                ![s].req = <<name>>]
            /\ pc' = [pc EXCEPT ![s] = "Respond"]
       [] OTHER ->
            /\ signalled
            /\ channels' = [channels EXCEPT ![name] =
                              [state |-> "Killed", killer |-> FALSE]]
            /\ active_channel' \in ReselectActive(name)
            /\ subscribed_channels' = subscribed_channels \ {name}
            /\ UNCHANGED <<waiterPc, produced>>
            /\ hl' = [hl EXCEPT ![s].req = <<name>>, ![s].cmd = "KillChannel"]
            /\ pc' = [pc EXCEPT ![s] = "Publish"]
  /\ UNCHANGED <<sinkLog, pumped, pumpVars, output_buffers, clients,
                 client_ids, subs, mboxOpen, sent, suspended, outsideVars>>

\* kill_channel: the send of StateChanged Killed finds room; the write lock
\* is released
KillPublish(s) ==
  /\ pc[s] = "Publish"
  /\ hl[s].cmd = "KillChannel"
  /\ EventRoom
  /\ sinkLog' = Append(sinkLog, StateChanged(hl[s].req[1], "Killed"))
  /\ hl' = [hl EXCEPT ![s].resp = Ack("KillChannel"), ![s].cmd = ""]
  /\ pc' = [pc EXCEPT ![s] = "Respond"]
  /\ UNCHANGED <<chanVars, pumped, pumpVars, output_buffers, clients,
                 client_ids, subs, mboxOpen, sent, nreq, suspended,
                 outsideVars>>

\* Client c1 created channel a; c2 attached after that, subscribed to a by
\* default, and its writer task has ended on a failed write.  a's child has
\* since written EVENT_CAPACITY chunks that the pump has yet to receive: the
\* event channel is full.  Of the two handlers only c1's is followed.
BusyInit ==
  /\ channels = [c \in {"a"} |-> SpawnedChannel]
  /\ active_channel = "a"
  /\ subscribed_channels = {"a"}
  /\ waiterPc = [c \in Channels |-> IF c = "a" THEN "waiting" ELSE "none"]
  /\ produced = [c \in Channels |-> IF c = "a" THEN EVENT_CAPACITY ELSE 0]
  /\ sinkLog = <<StateChanged("a", "Running")>>
                 \o [k \in 1..EVENT_CAPACITY |-> OutputEv("a", k)]
  /\ pumped = 1
  /\ pumpPc = "recv"
  /\ pumpEv = NoEvent
  /\ recipients = {}
  /\ subscription_updates = {}
  /\ output_buffers = [c \in {"a"} |-> <<>>]
  /\ clients = Clients
  /\ client_ids = <<"c1", "c2">>
  /\ subs = [s \in Clients |-> IF s = "c2" THEN {"a"} ELSE {}]
  /\ mboxOpen = [s \in Clients |-> s = "c1"]
  /\ sent = [s \in Clients |->
               IF s = "c1"
               THEN <<create_welcome_message, EventMsg("Created", "a"),
                      Ack("CreateChannel")>>
               ELSE <<create_welcome_message>>]
  /\ pc = [s \in Clients |-> "Loop"]
  /\ hl = [s \in Clients |-> NoLocals]
  /\ suspended = [t \in Tasks |-> <<>>]
  /\ mailboxFull = [s \in Clients |-> FALSE]
  /\ Listening
  /\ NoTraffic
  /\ reader = "read_message"
  /\ written = [c \in Channels |-> 0]
  /\ mgr_call = NoCall
  /\ nreq = MaxBusySteps

BusyNext ==
  \/ \E c \in Channels : ReaderPublish(c)
  \/ \E c \in Channels : WaiterObserve(c)
  \/ \E c \in Channels : WaiterNotify(c)
  \/ PumpRecv
  \/ PumpLockOutput
  \/ PumpLockTerminal
  \/ NoWriter /\ PumpSend
  \/ NoWriter /\ PumpNotify
  \/ NoWriter /\ PumpBroadcast
  \/ \E s \in Solo, name \in Channels, spawned \in BOOLEAN :
       CreateLocked(s, name, spawned)
  \/ \E s \in Solo : CreatePublish(s)
  \/ \E s \in Solo, name \in Channels, signalled \in BOOLEAN :
       KillLocked(s, name, signalled)
  \/ \E s \in Solo : KillPublish(s)
  \/ \E s \in Solo : BroadcastCreated(s)
  \/ \E s \in Solo : Respond(s)

BusySpec == BusyInit /\ [][BusyNext]_vars

\* ------------------------------------- daemon processes on one socket path
\* Each system call on the socket path is one step: another process can run
\* between any two of them.
\* UnixStream::connect to the socket path succeeds: the file leads to a
\* listener that a running process holds open
Connects ==
  socket_file \in Daemons /\ dpc[socket_file] \in {"accepting", "cleanup"}

\* the daemon is started
Start(d) ==
  /\ dpc[d] = "off"
  /\ dpc' = [dpc EXCEPT ![d] = "main_exists"]
  /\ UNCHANGED <<sessionVars, codecVars, written, mgr_call, socket_file, shutdown_rx, signal_task>>

\* main: server.socket_exists()
MainExists(d) ==
  /\ dpc[d] = "main_exists"
  /\ dpc' = [dpc EXCEPT ![d] = IF socket_file # NoFile THEN "main_connect"
                                ELSE "run_exists"]
  /\ UNCHANGED <<sessionVars, codecVars, written, mgr_call, socket_file, shutdown_rx, signal_task>>

\* main: the connect that tells a live daemon from a stale socket
MainConnect(d) ==
  /\ dpc[d] = "main_connect"
  /\ dpc' = [dpc EXCEPT ![d] = IF Connects THEN "failed" ELSE "run_exists"]
  /\ UNCHANGED <<sessionVars, codecVars, written, mgr_call, socket_file, shutdown_rx, signal_task>>

\* ServerListener::run: self.socket_path.exists()
RunExists(d) ==
  /\ dpc[d] = "run_exists"
  /\ dpc' = [dpc EXCEPT ![d] = IF socket_file # NoFile THEN "run_connect"
                                ELSE "bind"]
  /\ UNCHANGED <<sessionVars, codecVars, written, mgr_call, socket_file, shutdown_rx, signal_task>>

\* ServerListener::run: the connect to the socket found
RunConnect(d) ==
  /\ dpc[d] = "run_connect"
  /\ dpc' = [dpc EXCEPT ![d] = IF Connects THEN "failed" ELSE "remove"]
  /\ UNCHANGED <<sessionVars, codecVars, written, mgr_call, socket_file, shutdown_rx, signal_task>>

\* ServerListener::run: remove_file of the socket taken for stale; it fails
\* when the file is no longer there
RemoveStale(d) ==
  /\ dpc[d] = "remove"
  /\ IF socket_file # NoFile
     THEN socket_file' = NoFile /\ dpc' = [dpc EXCEPT ![d] = "bind"]
     ELSE socket_file' = socket_file /\ dpc' = [dpc EXCEPT ![d] = "failed"]
  /\ UNCHANGED <<sessionVars, codecVars, written, mgr_call, shutdown_rx, signal_task>>

\* ServerListener::run: UnixListener::bind, which fails when the file exists
Bind(d) ==
  /\ dpc[d] = "bind"
  /\ IF socket_file = NoFile
     THEN socket_file' = d /\ dpc' = [dpc EXCEPT ![d] = "accepting"]
     ELSE socket_file' = socket_file /\ dpc' = [dpc EXCEPT ![d] = "failed"]
  /\ UNCHANGED <<sessionVars, codecVars, written, mgr_call, shutdown_rx, signal_task>>

\* main's signal task: SIGTERM or SIGINT arrives and a unit is sent on the
\* shutdown channel; the task is spawned before run is called
Signal(d) ==
  /\ dpc[d] \in {"run_exists", "run_connect", "remove", "bind", "accepting"}
  /\ signal_task[d] = "wait"
  /\ signal_task' = [signal_task EXCEPT ![d] = "sent"]
  /\ shutdown_rx' = [shutdown_rx EXCEPT ![d] = 1]
  /\ UNCHANGED <<sessionVars, codecVars, written, mgr_call, dpc, socket_file>>

\* ServerListener::run, main loop: shutdown_rx.recv() breaks the loop
ShutdownReceived(d) ==
  /\ dpc[d] = "accepting"
  /\ shutdown_rx[d] > 0
  /\ shutdown_rx' = [shutdown_rx EXCEPT ![d] = 0]
  /\ dpc' = [dpc EXCEPT ![d] = "cleanup"]
  /\ UNCHANGED <<sessionVars, codecVars, written, mgr_call, socket_file, signal_task>>

\* ServerListener::cleanup: the file at the socket path is removed if there
\* is one; run returns and the process ends
CleanupSocket(d) ==
  /\ dpc[d] = "cleanup"
  /\ socket_file' = NoFile
  /\ dpc' = [dpc EXCEPT ![d] = "done"]
  /\ UNCHANGED <<sessionVars, codecVars, written, mgr_call, shutdown_rx, signal_task>>

\* no daemon runs; the socket path is free or holds a stale socket
HostInit ==
  /\ NewState
  /\ NoTraffic
  /\ reader = "read_message"
  /\ dpc = [d \in Daemons |-> "off"]
  /\ socket_file \in {NoFile, Stale}
  /\ shutdown_rx = [d \in Daemons |-> 0]
  /\ signal_task = [d \in Daemons |-> "wait"]
  /\ nreq = MaxHostSteps

\* the process of d1, whose tasks the handlers are, runs
Up == dpc["d1"] \in {"accepting", "cleanup"}

HostNext ==
  \/ \E d \in Daemons : Start(d)
  \/ \E d \in Daemons : MainExists(d)
  \/ \E d \in Daemons : MainConnect(d)
  \/ \E d \in Daemons : RunExists(d)
  \/ \E d \in Daemons : RunConnect(d)
  \/ \E d \in Daemons : RemoveStale(d)
  \/ \E d \in Daemons : Bind(d)
  \/ \E d \in Daemons : Signal(d)
  \/ \E d \in Daemons : ShutdownReceived(d)
  \/ \E d \in Daemons : CleanupSocket(d)
  \/ \E s \in Solo : Accept(s)
  \/ \E s \in Solo : Up /\ AddClient(s)
  \/ \E s \in Solo : Up /\ SendWelcome(s)
  \/ \E s \in Solo : Up /\ Shutdown(s)
  \/ \E s \in Solo : Up /\ Respond(s)

HostSpec == HostInit /\ [][HostNext]_vars

\* the runtime schedules every task that can run, and every process gets on
\* with its system calls; when a signal arrives, or a daemon is started, is
\* up to the environment
HostFairness ==
  /\ \A d \in Daemons :
       /\ WF_vars(MainExists(d))
       /\ WF_vars(MainConnect(d))
       /\ WF_vars(RunExists(d))
       /\ WF_vars(RunConnect(d))
       /\ WF_vars(RemoveStale(d))
       /\ WF_vars(Bind(d))
       /\ WF_vars(ShutdownReceived(d))
       /\ WF_vars(CleanupSocket(d))
  /\ \A s \in Solo :
       /\ WF_vars(Up /\ AddClient(s))
       /\ WF_vars(Up /\ SendWelcome(s))
       /\ WF_vars(Up /\ Respond(s))

HostLiveSpec == HostSpec /\ HostFairness

\* ------------------------------------------------- framing, byte by byte
\* u32::to_be_bytes and u32::from_be_bytes (every length here is below 2^31)
to_be_bytes(n) ==
  <<(n \div 16777216) % 256, (n \div 65536) % 256, (n \div 256) % 256, n % 256>>
from_be_bytes(b) == b[1] * 16777216 + b[2] * 65536 + b[3] * 256 + b[4]

\* the first n bytes of a buffer, and what follows them
Take(buf, n) == SubSeq(buf, 1, n)
Drop(buf, n) == SubSeq(buf, n + 1, Len(buf))

\* frame_message: the length prefix, then the payload
frame_message(payload) == to_be_bytes(Len(payload)) \o payload

\* the values unframe_message returns
FrameNone == [kind |-> "None", payload |-> <<>>, remaining |-> <<>>]
FrameErr == [kind |-> "Err", payload |-> <<>>, remaining |-> <<>>]
FrameSome(p, r) == [kind |-> "Some", payload |-> p, remaining |-> r]

\* an unframe_message that hands out all that follows the length prefix
unframe_message_rest(buf) ==
  IF Len(buf) < 4 THEN FrameNone
  ELSE LET message_length == from_be_bytes(Take(buf, 4))
           total_length == 4 + message_length
       IN  IF message_length > MAX_MESSAGE_SIZE THEN FrameErr
           ELSE IF Len(buf) < total_length THEN FrameNone
           ELSE FrameSome(Drop(buf, 4), <<>>)

unframe_message(buf) ==
  IF Len(buf) < 4 THEN FrameNone
  ELSE LET message_length == from_be_bytes(Take(buf, 4))
           total_length == 4 + message_length
       IN  IF message_length > MAX_MESSAGE_SIZE THEN FrameErr
           ELSE IF Len(buf) < total_length THEN FrameNone
           ELSE FrameSome(SubSeq(buf, 5, total_length), Drop(buf, total_length))

\* the payloads a peer frames
RECURSIVE SeqsOver(_, _)
SeqsOver(S, n) ==
  IF n = 0 THEN {<<>>}
  ELSE LET shorter == SeqsOver(S, n - 1)
       IN  shorter \cup {Append(q, x) : q \in shorter, x \in S}
LongPayload == [i \in 1..LongLen |-> i % 2]
Payloads == SeqsOver(PayloadBytes, MaxPayloadLen) \cup {LongPayload}

\* the lengths a header written without its body declares: on either side of
\* each limit
DeclaredLengths ==
  {MAX_MESSAGE_SIZE, MAX_MESSAGE_SIZE + 1,
   READ_MESSAGE_LIMIT, READ_MESSAGE_LIMIT + 1}

\* write_message, on the peer's side: one frame is written
WriteMessage(p) ==
  /\ ~eof
  /\ declared = 0
  /\ Len(framed) < MaxFrames
  /\ wire' = wire \o frame_message(p)
  /\ framed' = Append(framed, p)
  /\ UNCHANGED <<sessionVars, hostVars, written, mgr_call, buffer, eof, declared, reader, rdPc,
                 verdict, allocated, unframed>>

\* the peer writes a header and not, or not yet, the body it declares
WriteHeader(n) ==
  /\ ~eof
  /\ declared = 0
  /\ wire' = wire \o to_be_bytes(n)
  /\ declared' = n
  /\ UNCHANGED <<sessionVars, hostVars, written, mgr_call, buffer, eof, framed, reader, rdPc,
                 verdict, allocated, unframed>>

\* the peer closes its end
Close ==
  /\ ~eof
  /\ eof' = TRUE
  /\ UNCHANGED <<sessionVars, hostVars, written, mgr_call, wire, buffer, framed, declared, reader,
                 rdPc, verdict, allocated, unframed>>

\* the next byte arrives
Arrive ==
  /\ wire # <<>>
  /\ buffer' = Append(buffer, Head(wire))
  /\ wire' = Tail(wire)
  /\ UNCHANGED <<sessionVars, hostVars, written, mgr_call, eof, framed, declared, reader, rdPc,
                 verdict, allocated, unframed>>

\* nothing more will arrive
AtEof == eof /\ wire = <<>>

\* a caller of unframe_message: one call on what has arrived; it keeps what
\* remains, waits for more on None and gives up on an error
Unframe ==
  /\ reader = "unframe_message"
  /\ rdPc = "header"
  /\ LET r == unframe_message(buffer)
     IN  /\ verdict' = r.kind
         /\ buffer' = IF r.kind = "Some" THEN r.remaining ELSE buffer
         /\ unframed' = IF r.kind = "Some" THEN Append(unframed, r.payload)
                        ELSE unframed
         /\ allocated' = IF r.kind = "Some" THEN Len(r.payload) ELSE 0
         /\ rdPc' = IF r.kind = "Err" THEN "done" ELSE "header"
  /\ UNCHANGED <<sessionVars, hostVars, written, mgr_call, wire, eof, framed, declared, reader>>

\* read_message: read_exact of the header, the limit on the length, the
\* allocation of the body buffer
ReadHeader ==
  /\ reader = "read_message"
  /\ rdPc = "header"
  /\ IF Len(buffer) >= 4
     THEN LET len == from_be_bytes(Take(buffer, 4))
          IN  /\ buffer' = Drop(buffer, 4)
              /\ IF len > READ_MESSAGE_LIMIT
                 THEN verdict' = "Err" /\ rdPc' = "done" /\ allocated' = 0
                 ELSE verdict' = "" /\ rdPc' = "body" /\ allocated' = len
     ELSE /\ AtEof
          /\ buffer' = <<>>
          /\ verdict' = "None" /\ rdPc' = "done" /\ allocated' = 0
  /\ UNCHANGED <<sessionVars, hostVars, written, mgr_call, wire, eof, framed, declared, reader,
                 unframed>>

\* read_message: read_exact of the body, which fails at the end of the stream
ReadBody ==
  /\ reader = "read_message"
  /\ rdPc = "body"
  /\ IF Len(buffer) >= allocated
     THEN /\ unframed' = Append(unframed, Take(buffer, allocated))
          /\ buffer' = Drop(buffer, allocated)
          /\ verdict' = "Some" /\ rdPc' = "header"
     ELSE /\ AtEof
          /\ buffer' = <<>>
          /\ unframed' = unframed
          /\ verdict' = "Err" /\ rdPc' = "done"
  /\ UNCHANGED <<sessionVars, hostVars, written, mgr_call, wire, eof, framed, declared, reader,
                 allocated>>

\* a connection that is read with either function
FrameInit ==
  /\ NewState
  /\ Listening
  /\ NoTraffic
  /\ reader \in {"unframe_message", "read_message"}
  /\ nreq = 0

FrameNext ==
  \/ \E p \in Payloads : WriteMessage(p)
  \/ \E n \in DeclaredLengths : WriteHeader(n)
  \/ Close
  \/ Arrive
  \/ Unframe
  \/ ReadHeader
  \/ ReadBody

FrameSpec == FrameInit /\ [][FrameNext]_vars

\* ------------------------------------------------------------ the claims
\* what the claims read off the logs
IsTerminal(ev, c) ==
  ev.k = "StateChanged" /\ ev.ch = c /\ ev.st \in {"Exited", "Killed"}
IsTerminalMsg(m, c) == m.t \in {"Exited", "Killed"} /\ m.ch = c
IsOutputMsg(m, c) == m.t = "Output" /\ m.ch = c
OutputsOf(log, c) == SelectSeq(log, LAMBDA m : IsOutputMsg(m, c))
Terminated(c) == c \in DOMAIN channels /\ ~is_alive(channels[c].state)
\* a terminal event of c is still on its way to the pump
TerminalAhead(c) ==
  \/ waiterPc[c] = "notify"
  \/ \E i \in (pumped + 1)..Len(sinkLog) : IsTerminal(sinkLog[i], c)
\* the pump has nothing left to do
PumpCaughtUp ==
  /\ pumpPc = "recv"
  /\ pumped = Len(sinkLog)
  /\ \A c \in Channels : waiterPc[c] # "notify"
Attached(s) == pc[s] \notin {"Idle", "Gone"}

\* C1: the Output messages of one channel enqueued to one client (replayed
\* and live together) are a contiguous run of the chunks the channel's reader
\* published, in order and without duplicates.
C1_OutputContiguousRun ==
  \A s \in Clients, c \in Channels :
    LET q == OutputsOf(sent[s], c)
    IN  \A i \in 1..(Len(q) - 1) : q[i + 1].n = q[i].n + 1

\* C2: at most one terminal StateChanged (Exited or Killed) of a channel is
\* ever published on the manager's event sink.
C2_AtMostOneTerminalEvent ==
  \A c \in Channels :
    Cardinality({i \in 1..Len(sinkLog) : IsTerminal(sinkLog[i], c)}) <= 1

\* C3: on the event sink no Output event of a channel follows that channel's
\* terminal StateChanged.
C3_NoOutputEventAfterTerminal ==
  \A c \in Channels : \A i, j \in 1..Len(sinkLog) :
    (i < j /\ IsTerminal(sinkLog[i], c))
      => ~(sinkLog[j].k = "Output" /\ sinkLog[j].ch = c)

\* C4: no client is sent an Output of channel c after it was sent the
\* Event(Exited) or Event(Killed) of c.
C4_NoOutputAfterTerminalEvent ==
  \A s \in Clients, c \in Channels : \A i, j \in 1..Len(sent[s]) :
    (i < j /\ IsTerminalMsg(sent[s][i], c)) => ~IsOutputMsg(sent[s][j], c)

\* C5: each client's subscription set holds only names of channels that are
\* alive; a channel that has died may stay in a set only while its terminal
\* event is still on its way to the pump, which then removes it.
C5_SubscriptionsOnlyLive ==
  \A s \in clients : \A c \in subs[s] :
    /\ c \in DOMAIN channels
    /\ is_alive(channels[c].state) \/ TerminalAhead(c)

\* C6: once a channel has terminated, every client's subscription set stops
\* containing it within a bounded number of pump steps: by the time the pump
\* has drained the event channel, no set of an attached or attaching client
\* contains a terminated channel.
C6_RemovedOncePumpCaughtUp ==
  PumpCaughtUp =>
    \A c \in Channels : Terminated(c) =>
      \A s \in Clients : Attached(s) => c \notin subs[s]

\* C7: when the pump processes an Output event of channel c, its recipients
\* are exactly the clients of the map whose subscription set contains c at
\* that moment, and its sends enqueue one Output{c} to each recipient that is
\* still connected with its mailbox open, and nothing to any other client.
C7_OutputOnlyToSubscribers ==
  [][/\ (pumpPc = "recv" /\ pumpPc' = "send") =>
          /\ pumpEv'.k = "Output"
          /\ recipients' = {s \in clients : pumpEv'.ch \in subs[s]}
     /\ (pumpPc = "send" /\ pumpPc' # "send") =>
          \A s \in Clients :
            sent'[s] = IF s \in recipients /\ s \in clients /\ mboxOpen[s]
                       THEN Append(sent[s], OutputMsg(pumpEv.ch, pumpEv.n))
                       ELSE sent[s]
    ]_vars

\* C7 happens: an Output was enqueued to a subscribed client while another
\* connected client, not subscribed, was sent none
C7_Witness ==
  \E s, u \in clients, c \in Channels :
    /\ s # u
    /\ mboxOpen[s] /\ mboxOpen[u]
    /\ pumpPc = "recv" /\ pumped > 0
    /\ sinkLog[pumped].k = "Output" /\ sinkLog[pumped].ch = c
    /\ sent[s] # <<>> /\ sent[s][Len(sent[s])] = OutputMsg(c, sinkLog[pumped].n)
    /\ c \notin subs[u]
    /\ OutputsOf(sent[u], c) = <<>>

\* how often a message is in a log
Count(log, m) == Cardinality({i \in 1..Len(log) : log[i] = m})

\* C8: lifecycle events go to every connected client whatever it subscribes
\* to: a successful CreateChannel is followed by one Event(Created) enqueued
\* to every client of the map (whose mailbox is open), no client is ever sent
\* two Created of one name, every terminal StateChanged the pump receives ends
\* with Event(Exited) or Event(Killed) enqueued to every client of the map,
\* and a StateChanged{Running} sends nothing.
C8_LifecycleToAllClients ==
  /\ [](\A s \in Clients, c \in Channels :
          Count(sent[s], EventMsg("Created", c)) <= 1)
  /\ [][/\ DOMAIN channels' # DOMAIN channels =>
             \E s \in Clients :
               /\ pc[s] = "Loop" /\ pc'[s] = "Created"
               /\ DOMAIN channels' = DOMAIN channels \cup {hl'[s].chans[1]}
        /\ \A s \in Clients :
             (pc[s] = "Created" /\ pc'[s] # "Created") =>
               \A u \in Clients :
                 sent'[u] = IF u \in clients /\ mboxOpen[u]
                            THEN Append(sent[u],
                                   EventMsg("Created", hl[s].chans[1]))
                            ELSE sent[u]
        /\ (pumped' = pumped + 1 /\ sinkLog[pumped'].k = "StateChanged") =>
             IF sinkLog[pumped'].st \in {"Exited", "Killed"}
             THEN pumpPc' \in {"notify", "broadcast"}
                    /\ pumpEv' = sinkLog[pumped']
             ELSE pumpPc' = "recv" /\ sent' = sent
        /\ (pumpPc = "notify" /\ pumpPc' # "notify") =>
             pumpPc' = "broadcast" /\ pumpEv' = pumpEv
        /\ (pumpPc = "broadcast" /\ pumpPc' # "broadcast") =>
             \A u \in Clients :
               sent'[u] = IF u \in clients /\ mboxOpen[u]
                          THEN Append(sent[u],
                                 EventMsg(pumpEv.st, pumpEv.ch))
                          ELSE sent[u]
       ]_vars

\* C8 happens: two connected clients, neither subscribed to the channel, have
\* both been sent its Created and its Exited
C8_Witness ==
  \E c \in Channels :
    /\ clients = Clients
    /\ \A s \in Clients :
         /\ c \notin subs[s]
         /\ Count(sent[s], EventMsg("Created", c)) = 1
         /\ Count(sent[s], EventMsg("Exited", c)) = 1

\* C9: the first message enqueued to a client is Welcome.
C9_WelcomeFirst ==
  \A s \in Clients : sent[s] # <<>> => sent[s][1] = create_welcome_message

\* C10: a Hello with another protocol version is answered with an Error and
\* the daemon then closes the connection and removes the client (a Hello with
\* the matching version is answered with Ack and the loop goes on).
C10_VersionMismatchCloses ==
  \A s \in Clients :
    (\E i \in 1..Len(sent[s]) :
       sent[s][i] = create_error_message("Protocol version mismatch"))
      => pc[s] \in {"Cleanup", "Gone"}

\* C11: a CreateChannel whose name is already registered is answered with an
\* "already exists" error and changes nothing: the channel map, the active
\* channel, the subscriptions, the channels' threads and the event sink stay
\* as they are, and sending the answer sends nobody anything else (no
\* Created).  A create succeeds only for a name that is not registered, so
\* of two clients asking for one name exactly one succeeds: no channel is
\* ever announced as Running twice.
C11_DuplicateCreateFails ==
  /\ [](\A c \in Channels : Count(sinkLog, StateChanged(c, "Running")) <= 1)
  /\ [][\A s \in Clients :
          /\ (pc[s] = "Loop" /\ pc'[s] = "Respond" /\ hl'[s].resp =
                 create_error_message("already exists")) =>
               /\ hl'[s].req[1] \in DOMAIN channels
               /\ UNCHANGED <<chanVars, sinkLog, subs, sent, output_buffers>>
          /\ (pc[s] = "Loop" /\ pc'[s] = "Created") =>
               /\ hl'[s].req[1] \notin DOMAIN channels
               /\ hl'[s].req[1] \in DOMAIN channels'
          /\ (pc[s] = "Respond" /\ pc'[s] # "Respond" /\ hl[s].resp =
                 create_error_message("already exists")) =>
               /\ UNCHANGED <<chanVars, sinkLog, subs>>
               /\ \A u \in Clients \ {s} : sent'[u] = sent[u]
               /\ sent'[s] \in {sent[s], Append(sent[s], hl[s].resp)}
       ]_vars

\* C11 happens: two clients asked for the same name; one holds the Ack, the
\* other the "already exists" error, and the channel is registered once
C11_Witness ==
  \E s, u \in Clients : \E c \in DOMAIN channels :
    /\ s # u
    /\ Count(sent[s], Ack("CreateChannel")) = 1
    /\ Count(sent[u], create_error_message("already exists")) = 1
    /\ Count(sent[u], Ack("CreateChannel")) = 0
    /\ DOMAIN channels = {c}
    /\ Count(sinkLog, StateChanged(c, "Running")) = 1

\* a kill_channel call on name has just succeeded
KillSucceeded(name) == sinkLog' = Append(sinkLog, StateChanged(name, "Killed"))

\* C12: when kill_channel succeeds on the active channel, the active channel
\* becomes some other channel that is still alive, or none when no other
\* channel is alive; it is never the killed channel.
C12_ActiveAfterKill ==
  [][\A name \in Channels :
       (KillSucceeded(name) /\ active_channel = name) =>
         LET live == {c \in DOMAIN channels' \ {name} :
                        is_alive(channels'[c].state)}
         IN  IF live = {} THEN active_channel' = NoChannel
             ELSE active_channel' \in live
    ]_vars

\* a create_channel call for name has just succeeded
CreateSucceeded(name) ==
  sinkLog' = Append(sinkLog, StateChanged(name, "Running"))

\* C13: a successful create_channel makes the new channel the active one when
\* no channel was registered before it, and leaves the active channel as it
\* was on every later successful create.
C13_FirstChannelBecomesActive ==
  [][\A name \in Channels :
       CreateSucceeded(name) =>
         /\ name \notin DOMAIN channels
         /\ active_channel' = IF DOMAIN channels = {} THEN name
                              ELSE active_channel
    ]_vars

\* C13 happens: the first channel became active and was killed, and the
\* channel created after it is alive and did not become active
C13_Witness ==
  /\ DOMAIN channels = {"a", "b"}
  /\ Count(sinkLog, StateChanged("a", "Killed")) = 1
  /\ is_alive(channels["b"].state)
  /\ active_channel = NoChannel

\* C14: a kill of a channel that has already been killed is a no-op: while a
\* channel is in state Killed, no step publishes another
\* StateChanged{Killed} for it (which the pump would broadcast to the clients
\* as another Event(Killed)).
C14_KillAgainIsNoOp ==
  [][\A name \in DOMAIN channels :
       channels[name].state = "Killed" => ~KillSucceeded(name)
    ]_vars

\* the chunks a copy of the buffers holds for channel c
SnapEntries(snap, c) ==
  IF \E i \in 1..Len(snap) : snap[i][1] = c
  THEN snap[CHOOSE i \in 1..Len(snap) : snap[i][1] = c][2]
  ELSE <<>>
\* the chunk numbers of the Output messages of c in a log
ChunksOf(log, c) ==
  LET q == OutputsOf(log, c) IN [i \in 1..Len(q) |-> q[i].n]
\* what was appended to s's mailbox in this step
Appended(s) == SubSeq(sent'[s], Len(sent[s]) + 1, Len(sent'[s]))

C16_StarMeansLiveChannels ==
  [][\A s \in Clients :
       /\ (pc[s] = "Loop" /\ pc'[s] = "Subscribe" /\ "*" \in Range(hl'[s].req))
            => Range(hl'[s].chans) =
                 {c \in DOMAIN channels : is_alive(channels[c].state)}
       /\ (pc[s] = "Subscribe" /\ pc'[s] # "Subscribe" /\ s \in clients
             /\ "*" \in Range(hl[s].req))
            => \A c \in subs'[s] \ subs[s] :
                 c \in DOMAIN channels /\ is_alive(channels[c].state)
    ]_vars

\* C17: the ChannelList built for client s has one entry per channel of the
\* manager, and its is_subscribed is true exactly for the channels of s's own
\* subscription set when the list is built; that list is what s is sent.
C17_ListReportsOwnSubscriptions ==
  [][\A s \in Clients :
       /\ (pc[s] = "Loop" /\ pc'[s] = "Respond"
             /\ hl'[s].resp.t = "ChannelList")
            => /\ {info.name : info \in hl'[s].resp.channels} = DOMAIN channels
               /\ Cardinality(hl'[s].resp.channels) = Cardinality(DOMAIN channels)
               /\ \A info \in hl'[s].resp.channels :
                    info.is_subscribed = (info.name \in subs[s])
       /\ (pc[s] = "Respond" /\ pc'[s] = "Loop" /\ s \in clients
             /\ hl[s].resp.t = "ChannelList")
            => sent'[s] = Append(sent[s], hl[s].resp)
    ]_vars

\* a client was sent a list that says it is not subscribed to a, while the
\* manager's session-level list and the other client's set both hold a
C17_Witness ==
  \E s \in clients, o \in clients : \E i \in 1..Len(sent[s]) :
    /\ o # s
    /\ sent[s][i].t = "ChannelList"
    /\ \E info \in sent[s][i].channels :
         info.name = "a" /\ ~info.is_subscribed
    /\ "a" \notin subs[s]
    /\ "a" \in subs[o]
    /\ manager_is_subscribed("a")

\* a kill of the channel has succeeded
WasKilled(name) ==
  \E i \in 1..Len(sinkLog) : sinkLog[i] = StateChanged(name, "Killed")

\* C18: once a KillChannel of a channel has succeeded, a ChannelList built
\* afterwards has no entry for that channel.
C18_KilledChannelNotListed ==
  [][\A s \in Clients :
       (pc[s] = "Loop" /\ pc'[s] = "Respond" /\ hl'[s].resp.t = "ChannelList")
         => \A info \in hl'[s].resp.channels : ~WasKilled(info.name)
    ]_vars

\* s's handler has created the channel and not yet sent the Ack
CreateAckPending(s) ==
  /\ pc[s] \in {"Created", "Respond"}
  /\ hl[s].resp = Ack("CreateChannel")

\* C19: as long as the Ack of its CreateChannel{name} has not been enqueued
\* to the creating client, no Output{name} has been enqueued to it either,
\* whatever the channel's reader and the pump have done meanwhile.
C19_AckBeforeOutput ==
  \A s \in Clients :
    CreateAckPending(s) => OutputsOf(sent[s], hl[s].req[1]) = <<>>

\* the Ack is still to be sent while the pump has already handled a chunk of
\* the new channel
C19_Witness ==
  \E s \in clients :
    /\ CreateAckPending(s)
    /\ pc[s] = "Respond"
    /\ hl[s].req[1] \in DOMAIN output_buffers
    /\ output_buffers[hl[s].req[1]] # <<>>
    /\ pumpPc = "recv"

\* the terminal events of channel c published so far
TerminalEvents(c) == SelectSeq(sinkLog, LAMBDA ev : IsTerminal(ev, c))

\* s's handler has killed a channel that was alive and not yet sent the Ack
KillAckPending(s) ==
  /\ pc[s] = "Respond"
  /\ hl[s].resp = Ack("KillChannel")
  /\ waiterPc[hl[s].req[1]] = "waiting"
  /\ TerminalEvents(hl[s].req[1]) = <<StateChanged(hl[s].req[1], "Killed")>>

\* C20: as long as the Ack of its KillChannel{a} of a live channel has not
\* been enqueued to the killing client, Event(Killed{a}) has not been
\* enqueued to it either.
C20_AckBeforeKilledEvent ==
  \A s \in clients :
    KillAckPending(s) => Count(sent[s], EventMsg("Killed", hl[s].req[1])) = 0

\* C21: the event pump is never held up by a full mailbox: in its sends of
\* an Output event it is never suspended at a client.
C21_PumpNeverSuspended ==
  ~(pumpPc = "send" /\ Stuck("pump"))

\* the handler of s is between accepting or reading and its last send
Busy(s) == pc[s] \notin {"Idle", "Loop", "Cleanup", "Gone", "Aborted"}

\* C22: while c1 stays connected with a full mailbox, whatever another client
\* has asked for (an attach, a request) is eventually done with: its handler
\* gets back to reading, or ends.
C22_OthersStillServed ==
  \A o \in Clients \ {"c1"} :
    Busy(o) ~> (~Busy(o) \/ ~(mboxOpen["c1"] /\ mailboxFull["c1"]))

\* C23: a SwitchChannel{name} of a registered channel makes it the active
\* channel and is answered with Ack; one of an unknown name is answered
\* with Error and leaves the active channel as it is.
C23_SwitchChannelActivates ==
  [][\A s \in Clients, c \in Channels :
       Phase2(s, <<"SwitchChannel", <<c>>>>) =>
         IF c \in DOMAIN channels
         THEN active_channel' = c /\ hl'[s].resp = Ack("SwitchChannel")
         ELSE active_channel' = active_channel /\ hl'[s].resp.t = "Error"]_vars

\* channel c is registered and its process is running
Writable(c) == c \in DOMAIN channels /\ is_alive(channels[c].state)

\* C24: an Input of a client is taken by the running active channel and an
\* InputTo by the running channel it names, and neither is answered: the
\* handler has no response to send for it.
C24_InputNotAnswered ==
  [][\A s \in Clients :
       /\ (Phase2(s, <<"Input", <<>>>>) /\ Writable(active_channel))
            => hl'[s].resp = NoMsg
       /\ \A c \in Channels :
            (Phase2(s, <<"InputTo", <<c>>>>) /\ Writable(c))
              => hl'[s].resp = NoMsg]_vars

\* C25: once the Ack of a Detach has been sent, the daemon itself ends the
\* connection: the handler leaves its loop for the cleanup that removes the
\* client, instead of reading on.
C25_DetachCloses ==
  [][\A s \in Clients :
       (Respond(s) /\ hl[s].resp = Ack("Detach")) => pc'[s] = "Cleanup"]_vars

\* the Ack of a Shutdown has been sent to s
ShutdownAcked(s) == Count(sent[s], Ack("Shutdown")) > 0

\* C26: once a client's Shutdown has been answered with its Ack, the daemon
\* eventually shuts down: its accept loop has stopped and the socket file
\* it bound is gone.
C26_ShutdownShutsDown ==
  \A s \in Solo :
    ShutdownAcked(s) ~> (dpc["d1"] # "accepting" /\ socket_file # "d1")

\* C27: no two daemons started on one socket path are ever both bound and in
\* their accept loops.
C27_OneDaemonPerPath ==
  Cardinality({d \in Daemons : dpc[d] = "accepting"}) <= 1

\* the other half of it: the socket file of a daemon in its accept loop is
\* never removed by the stale-socket recovery of another daemon
LiveSocketKept ==
  [][\A d \in Daemons :
       (RemoveStale(d) /\ socket_file \in Daemons)
         => dpc[socket_file] # "accepting"]_vars

\* the last message enqueued to s is the Error for a frame that did not decode
LastWasInvalid(s) ==
  /\ sent[s] # <<>>
  /\ sent[s][Len(sent[s])] = create_error_message("Invalid message")

\* C28: a frame that does not decode is answered with an Error and the
\* connection stays open; when the message right after it does not decode
\* either, the daemon closes the connection: the handler leaves its loop.
C28_SecondBadFrameCloses ==
  [][\A s \in Clients :
       SendInvalid(s) =>
         IF LastWasInvalid(s)
         THEN pc'[s] = "Cleanup"
         ELSE /\ pc'[s] = "Loop"
              /\ UNCHANGED <<chanVars, output_buffers, clients, client_ids,
                             subs>>]_vars

\* what holds of it: the Error is enqueued, the handler reads on, the session
\* state is as it was
FirstBadFrameSurvived ==
  [][\A s \in Clients :
       SendInvalid(s) =>
         /\ pc'[s] = "Loop"
         /\ (s \in clients /\ mboxOpen[s]) =>
              sent'[s] = Append(sent[s], create_error_message("Invalid message"))
         /\ UNCHANGED <<chanVars, output_buffers, clients, client_ids,
                        subs>>]_vars

\* the payloads framed and not yet returned by the reader
Pending == SubSeq(framed, Len(unframed) + 1, Len(framed))

\* C29: a header that declares more than MAX_MESSAGE_SIZE bytes is rejected
\* by whichever function reads the stream, unframe_message or the daemon's
\* read_message, before a body is allocated or read: no body buffer is ever
\* larger than MAX_MESSAGE_SIZE, and once such a header has been looked at
\* the verdict is an error and the reading is over.
C29_OversizeRejected ==
  /\ allocated <= MAX_MESSAGE_SIZE
  /\ (declared > MAX_MESSAGE_SIZE /\ Pending = <<>> /\ rdPc # "header")
       => (verdict = "Err" /\ rdPc = "done")

\* C30: at a frame boundary with only whole frames written, unframe_message
\* gives back the payload of the one frame that has arrived and an empty
\* remainder; of two frames it gives the first and then, from what remains,
\* the second with an empty remainder; of less than one whole frame it gives
\* None; and what a caller has unframed is what was framed, in order.
C30_FramingRoundTrip ==
  (declared = 0 /\ rdPc = "header") =>
    /\ (Len(Pending) = 1 /\ wire = <<>>)
         => unframe_message(buffer) = FrameSome(Pending[1], <<>>)
    /\ (Len(Pending) = 2 /\ wire = <<>>)
         => LET first == unframe_message(buffer)
            IN  /\ first.kind = "Some"
                /\ first.payload = Pending[1]
                /\ unframe_message(first.remaining) = FrameSome(Pending[2], <<>>)
    /\ (Pending = <<>> \/ Len(buffer) < Len(frame_message(Pending[1])))
         => unframe_message(buffer) = FrameNone
    /\ reader = "unframe_message"
         => /\ verdict # "Err"
            /\ Len(unframed) <= Len(framed)
            /\ unframed = SubSeq(framed, 1, Len(unframed))

\* two different frames, one of them long, were written and both unframed
C30_Witness ==
  /\ reader = "unframe_message"
  /\ Len(framed) = 2
  /\ framed[1] = LongPayload
  /\ framed[2] = <<1>>
  /\ unframed = framed
  /\ buffer = <<>>

\* C31: a channel whose state is Exited or Killed stays registered and never
\* becomes Starting or Running again, whatever kill_channel and the waiter
\* do next; and a write to it fails and writes nothing.
C31_TerminalStaysTerminal ==
  [][/\ \A c \in Channels :
          Terminated(c) =>
            c \in DOMAIN channels' /\ ~is_alive(channels'[c].state)
     /\ \A c \in Channels, accepted \in BOOLEAN :
          (Terminated(c) /\ (MgrInputTo(c, accepted)
                               \/ (MgrInput(accepted) /\ active_channel = c)))
            => /\ mgr_call'.res \notin {"ok", ""}
               /\ written' = written]_vars

\* a was written to while it ran, was killed, its child was reaped, and the
\* write that came then failed
C31_Witness ==
  /\ "a" \in DOMAIN channels
  /\ channels["a"].state = "Exited"
  /\ waiterPc["a"] = "done"
  /\ written["a"] = 1
  /\ \E i \in 1..Len(sinkLog) : sinkLog[i] = StateChanged("a", "Killed")
  /\ mgr_call = Call("send_input_to", "a", "not running")

\* C32: the terminal state of a channel is written once: after it has become
\* Exited or Killed, no kill and no step of the waiter gives it another value.
C32_TerminalWrittenOnce ==
  [][\A c \in Channels :
       Terminated(c) => channels'[c].state = channels[c].state]_vars

\* the chunks of c the pump has put into the buffers so far, in order
PumpedChunks(c) ==
  LET q == SelectSeq(SubSeq(sinkLog, 1, pumped),
                     LAMBDA ev : ev.k = "Output" /\ ev.ch = c)
  IN  [i \in 1..Len(q) |-> q[i].n]

\* the last n elements of a sequence, all of them if it has fewer
LastOf(q, n) == IF Len(q) <= n THEN q ELSE SubSeq(q, Len(q) - n + 1, Len(q))

\* C33: every replay buffer holds at most MAX_BUFFERED_OUTPUTS chunks, and
\* they are the most recent chunks of its channel that the pump has taken,
\* in the order they were produced: the oldest go first.
C33_BufferKeepsMostRecent ==
  \A c \in DOMAIN output_buffers :
    /\ Len(output_buffers[c]) <= MAX_BUFFERED_OUTPUTS
    /\ output_buffers[c] = LastOf(PumpedChunks(c), MAX_BUFFERED_OUTPUTS)

\* the full buffer of a has taken two more chunks and let its two oldest go
C33_Witness ==
  /\ Len(output_buffers["a"]) = MAX_BUFFERED_OUTPUTS
  /\ output_buffers["a"][1] = 3
  /\ output_buffers["a"][MAX_BUFFERED_OUTPUTS] = MAX_BUFFERED_OUTPUTS + 2

\* the pump takes the Exited or Killed event of a channel from the event channel
TakesTerminal ==
  /\ pumped' = pumped + 1
  /\ sinkLog[pumped'].k = "StateChanged"
  /\ sinkLog[pumped'].st \in {"Exited", "Killed"}

\* the entries of the pump's list of updates that are for client s
UpdatesOf(s) == {u \in subscription_updates : u[1] = s}

ConnectionEnds(s) == pc[s] \in {"Loop", "Cleanup"} /\ pc'[s] = "Gone"

\* C35: when a client's connection ends, the client leaves the client map and
\* the session's list of client ids and its mailbox is closed, a failed
\* response send leads there, the channels, the buffers and every
\* subscription set stay as they are, and from then on nothing is enqueued
\* for that client.
C35_DisconnectRemovesClient ==
  [][\A s \in Clients :
       /\ (pc[s] = "Respond" /\ pc'[s] # "Respond"
             /\ s \in clients /\ ~mboxOpen[s]) => pc'[s] = "Cleanup"
       /\ pc[s] = "Cleanup" => pc'[s] \in {"Cleanup", "Gone"}
       /\ ConnectionEnds(s) =>
            /\ clients' = clients \ {s}
            /\ s \notin Range(client_ids')
            /\ \A u \in Clients \ {s} :
                 u \in Range(client_ids') <=> u \in Range(client_ids)
            /\ ~mboxOpen'[s]
            /\ \A u \in Clients \ {s} : mboxOpen'[u] = mboxOpen[u]
            /\ UNCHANGED <<chanVars, output_buffers, subs, sent, sinkLog>>
       /\ pc[s] = "Gone" =>
            /\ pc'[s] = "Gone"
            /\ s \notin clients' /\ s \notin Range(client_ids')
            /\ ~mboxOpen'[s]
            /\ sent'[s] = sent[s]
    ]_vars

\* C35 happens: c1 created a and left; c2, attached since, has been sent
\* a's Exited, and c1 has not
C35_Witness ==
  /\ pc["c1"] = "Gone"
  /\ clients = {"c2"}
  /\ client_ids = <<"c2">>
  /\ "a" \in DOMAIN channels
  /\ Count(sent["c1"], EventMsg("Created", "a")) = 1
  /\ Count(sent["c1"], EventMsg("Exited", "a")) = 0
  /\ Count(sent["c2"], EventMsg("Exited", "a")) = 1

\* C36: kill_channel, switch_active and send_input_to, called with a name
\* that is not registered, end with "not found" and leave the channel map,
\* the active channel, the subscription list, the channels' threads, the
\* event channel and the PTYs as they are.
C36_UnknownNameChangesNothing ==
  [][\A name \in Channels :
       (/\ name \notin DOMAIN channels
        /\ \/ \E signalled \in BOOLEAN : MgrKill(name, signalled)
           \/ MgrSwitch(name)
           \/ \E accepted \in BOOLEAN : MgrInputTo(name, accepted))
         => /\ mgr_call'.name = name
            /\ mgr_call'.res = "not found"
            /\ UNCHANGED <<chanVars, sinkLog, written>>
    ]_vars

\* C36 happens: with a registered and active, switch_active was called with
\* b, which is not registered, and ended with "not found"
C36_Witness ==
  /\ mgr_call = Call("switch_active", "b", "not found")
  /\ DOMAIN channels = {"a"}
  /\ active_channel = "a"

\* C37: a CreateChannel or KillChannel handler that awaits room on the event
\* channel, holding the write lock, is never left waiting for a pump that
\* in turn needs a lock before it can receive again: the pump is at its
\* receive, which makes the room.
C37_HandlerNeverStuck ==
  \A s \in Clients :
    (pc[s] = "Publish" /\ ~EventRoom) => pumpPc = "recv"

\* C38: no call and no thread takes a channel out of the manager's map, and
\* create_channel with a name that is in the map, its channel dead or alive,
\* ends with "already exists" and changes nothing.
C38_ChannelsStayRegistered ==
  [][/\ DOMAIN channels \subseteq DOMAIN channels'
     /\ \A name \in DOMAIN channels :
          (\E spawned \in BOOLEAN : MgrCreate(name, spawned)) =>
            /\ mgr_call' = Call("create_channel", name, "already exists")
            /\ UNCHANGED <<chanVars, sinkLog>>
    ]_vars

\* C38 happens: a was killed, and a create_channel of a after that ended with
\* "already exists"
C38_Witness ==
  /\ mgr_call = Call("create_channel", "a", "already exists")
  /\ "a" \in DOMAIN channels
  /\ channels["a"].state = "Killed"

\* the channels that are registered and alive
LiveChannels == {c \in DOMAIN channels : is_alive(channels[c].state)}

\* C39: whenever a live channel is registered, the active channel is set and
\* is a live channel.
C39_ActiveIsLive ==
  LiveChannels # {} => active_channel \in LiveChannels

\* where in a log the SubscriptionChanged messages are
SubscriptionChangedAt(log) ==
  {i \in 1..Len(log) : log[i].t = "SubscriptionChanged"}

\* the last SubscriptionChanged of a log that has one
LastSubscriptionChanged(log) ==
  log[CHOOSE i \in SubscriptionChangedAt(log) :
        \A j \in SubscriptionChangedAt(log) : j <= i]

\* nothing is left to do for client s: its handler is back at its read, the
\* pump has handled every event published, no waiter has an exit to publish
Settled(s) ==
  /\ pc[s] = "Loop"
  /\ pumpPc = "recv"
  /\ pumped = Len(sinkLog)
  /\ \A c \in Channels : waiterPc[c] # "notify"

\* C40: once a client's requests and all published channel events have been
\* handled, the last SubscriptionChanged the client was sent carries the
\* client's subscription set as the daemon has it.
C40_LastSubscriptionChangedIsCurrent ==
  \A s \in clients :
    (Settled(s) /\ mboxOpen[s] /\ SubscriptionChangedAt(sent[s]) # {}) =>
      LastSubscriptionChanged(sent[s]).subs = subs[s]

====
